---- MODULE Spec2Model ----
(***************************************************************************)
(* FireChat E2EE: identity keys, conversation-key derivation, the message  *)
(* codec and the replay guard, with the chat view that consumes them.      *)
(*                                                                         *)
(* WebCrypto (ECDH P-256, HKDF-SHA256, AES-256-GCM) and the CSPRNG are     *)
(* external to the repository and are modelled symbolically:               *)
(*   - a key pair is a number; ECDH of (private i, public j) is the        *)
(*     unordered pair {i, j};                                              *)
(*   - HKDF is injective in (input key material, salt, info);              *)
(*   - an AES-GCM ciphertext opens only under the key and IV that made it  *)
(*     and only when no bit of it was flipped;                             *)
(*   - random values never repeat (they are drawn from counters).          *)
(* Strings that the code orders (user ids) are sequences of UTF-16 code    *)
(* units; other strings are TLA+ strings.                                  *)
(***************************************************************************)
EXTENDS Integers, Sequences, FiniteSets, TLC

\* ------------------------------------------------------------------ bounds

\* Capacity of the seen-nonce set, scaled down from 10000 (crypto.ts:242).
MAX_NONCES == 2
\* Documents the message store holds at most.
MaxDocs == 3

\* ----------------------------------------------------------- value shapes

Null == [type |-> "null"]
NoUser == << >>

Ok(v) == [ok |-> TRUE, value |-> v, error |-> Null]
Fail(e) == [ok |-> FALSE, value |-> Null, error |-> e]

\* new Error(message)
PlainError(message) == [type |-> "Error", code |-> "", message |-> message]

\* main.ts: class CryptoError extends Error { constructor(message, code) }
CryptoError(message, code) == [type |-> "CryptoError", code |-> code, message |-> message]

\* main.ts: CRYPTO_CONFIG
CRYPTO_CONFIG == [VERSION |-> 1, IV_LENGTH |-> 12, KEY_LENGTH |-> 256]

\* ------------------------------------------------------- utility functions

\* crypto.ts: toBase64 / fromBase64 (bytes <-> base64 text)
toBase64(bytes) == [b64 |-> bytes]
fromBase64(text) == text.b64

\* crypto.ts: stringToBytes / bytesToString (UTF-8)
stringToBytes(str) == [utf8 |-> str]
bytesToString(bytes) == bytes.utf8

\* crypto.ts: generateNonce, on the 24 random bytes r
generateNonce(r) == toBase64([random |-> r, length |-> 24])

\* Lexicographic order on sequences of code units: s sorts strictly before t.
RECURSIVE StrLess(_, _)
StrLess(s, t) ==
  IF t = << >> THEN FALSE
  ELSE IF s = << >> THEN TRUE
  ELSE IF Head(s) # Head(t) THEN Head(s) < Head(t)
  ELSE StrLess(Tail(s), Tail(t))

\* A plausible slip: the array left as it is.
SortPair_unsorted(arr) == arr

\* Array.prototype.sort on a two-element array of strings
SortPair(arr) == IF StrLess(arr[2], arr[1]) THEN <<arr[2], arr[1]>> ELSE arr

\* Array.prototype.join on a two-element array; 95 is the code unit of '_'
JoinPair(arr, sep) == arr[1] \o sep \o arr[2]

\* A plausible slip: the ids joined in argument order, unsorted.
createConversationId_unsorted(uid1, uid2) == JoinPair(<<uid1, uid2>>, <<95>>)

\* A plausible slip: the sorted ids joined without a separator.
createConversationId_noSeparator(uid1, uid2) == JoinPair(SortPair(<<uid1, uid2>>), << >>)

\* crypto.ts: createConversationId
createConversationId(uid1, uid2) == JoinPair(SortPair(<<uid1, uid2>>), <<95>>)

\* ----------------------------------------------------------- key management

PrivateKey(k) == [type |-> "private", id |-> k]
PublicKey(k) == [type |-> "public", id |-> k]

\* crypto.ts: generateKeyPair, on the key material k the CSPRNG yields
generateKeyPair(k) == [privateKey |-> PrivateKey(k), publicKey |-> PublicKey(k)]

\* A plausible slip: the two halves exported under each other's name.
exportKeyPair_swapped(keyPair) ==
  [publicKey |-> toBase64([format |-> "pkcs8", id |-> keyPair.privateKey.id]),
   privateKey |-> toBase64([format |-> "spki", id |-> keyPair.publicKey.id])]

\* crypto.ts: exportKeyPair (spki / pkcs8, base64)
exportKeyPair(keyPair) ==
  [publicKey |-> toBase64([format |-> "spki", id |-> keyPair.publicKey.id]),
   privateKey |-> toBase64([format |-> "pkcs8", id |-> keyPair.privateKey.id])]

\* crypto.ts: importPublicKey
importPublicKey(b64) ==
  IF fromBase64(b64).format = "spki"
  THEN Ok(PublicKey(fromBase64(b64).id))
  ELSE Fail(CryptoError("Public key import failed", "KEY_IMPORT_FAILED"))

\* crypto.ts: importPrivateKey
importPrivateKey(b64) ==
  IF fromBase64(b64).format = "pkcs8"
  THEN Ok(PrivateKey(fromBase64(b64).id))
  ELSE Fail(CryptoError("Private key import failed", "KEY_IMPORT_FAILED"))

\* ------------------------------------------------------------ key derivation

\* crypto.subtle.deriveBits({name: 'ECDH', public}, private, 256)
EcdhDeriveBits(myPrivateKey, theirPublicKey) ==
  [bits |-> {myPrivateKey.id, theirPublicKey.id}, length |-> 256]

\* crypto.subtle.deriveKey({name: 'HKDF', hash, salt, info}, ikm, AES-GCM)
HkdfDeriveKey(ikm, salt, info, length) ==
  [type |-> "aes-gcm", ikm |-> ikm, salt |-> salt, info |-> info, length |-> length]

\* A plausible slip: the conversation id left out of the HKDF info.
deriveConversationKey_noInfo(myPrivateKey, theirPublicKey, conversationId) ==
  IF myPrivateKey.type = "private" /\ theirPublicKey.type = "public"
  THEN Ok(HkdfDeriveKey(EcdhDeriveBits(myPrivateKey, theirPublicKey),
                        stringToBytes("firechat-e2ee-v1"),
                        stringToBytes(<<"conversation:">>),
                        CRYPTO_CONFIG.KEY_LENGTH))
  ELSE Fail(CryptoError("Key derivation failed", "KEY_DERIVE_FAILED"))

\* crypto.ts: deriveConversationKey
deriveConversationKey(myPrivateKey, theirPublicKey, conversationId) ==
  IF myPrivateKey.type = "private" /\ theirPublicKey.type = "public"
  THEN Ok(HkdfDeriveKey(EcdhDeriveBits(myPrivateKey, theirPublicKey),
                        stringToBytes("firechat-e2ee-v1"),
                        stringToBytes(<<"conversation:", conversationId>>),
                        CRYPTO_CONFIG.KEY_LENGTH))
  ELSE Fail(CryptoError("Key derivation failed", "KEY_DERIVE_FAILED"))

\* ------------------------------------------------------------- JSON objects

\* An object is the sequence of its <<key, value>> pairs, in insertion order.
Undefined == [type |-> "undefined"]
Str(s) == [str |-> s]

ObjHas(obj, key) == \E i \in 1..Len(obj) : obj[i][1] = key

\* obj[key]
ObjGet(obj, key) ==
  IF ObjHas(obj, key)
  THEN obj[CHOOSE i \in 1..Len(obj) : obj[i][1] = key][2]
  ELSE Undefined

\* { ...obj, [key]: value }
ObjSpreadSet(obj, key, value) ==
  IF ObjHas(obj, key)
  THEN [i \in 1..Len(obj) |-> IF obj[i][1] = key THEN <<key, value>> ELSE obj[i]]
  ELSE Append(obj, <<key, value>>)

\* A plausible slip: the whole object returned, the key not removed.
ObjRest_keepsKey(obj, key) == obj

\* const { [key]: _, ...rest } = obj
ObjRest(obj, key) == SelectSeq(obj, LAMBDA p : p[1] # key)

\* JSON.stringify: properties whose value is undefined are left out
JsonStringify(obj) == [json |-> SelectSeq(obj, LAMBDA p : p[2] # Undefined)]

\* JSON.parse
JsonParse(text) == text.json

\* ------------------------------------------------ message encryption (AES-GCM)

\* crypto.subtle.encrypt({name: 'AES-GCM', iv}, key, data): ciphertext and tag.
\* flipped is the set of bit positions changed since the encryption.
AesGcmEncrypt(key, iv, data) ==
  [sealed |-> [key |-> key, iv |-> iv, data |-> data], flipped |-> {}]

\* crypto.subtle.decrypt: throws DOMException OperationError unless the tag
\* verifies under (key, iv)
AesGcmDecrypt(key, iv, bytes) ==
  IF bytes.flipped = {} /\ bytes.sealed.key = key /\ bytes.sealed.iv = iv
  THEN Ok(bytes.sealed.data)
  ELSE Fail([type |-> "DOMException", code |-> "OperationError", message |-> ""])

\* A plausible slip: one IV for every encryption.
encrypt_fixedIv(plaintext, key, r) ==
  IF key.type = "aes-gcm"
  THEN LET iv == [random |-> 0, length |-> CRYPTO_CONFIG.IV_LENGTH]
           data == stringToBytes(plaintext)
           ciphertext == AesGcmEncrypt(key, iv, data)
       IN  Ok([ciphertext |-> toBase64(ciphertext),
               iv |-> toBase64(iv),
               version |-> CRYPTO_CONFIG.VERSION])
  ELSE Fail(CryptoError("Encryption failed", "ENCRYPT_FAILED"))

\* crypto.ts: encrypt, on the IV_LENGTH random bytes r
encrypt(plaintext, key, r) ==
  IF key.type = "aes-gcm"
  THEN LET iv == [random |-> r, length |-> CRYPTO_CONFIG.IV_LENGTH]
           data == stringToBytes(plaintext)
           ciphertext == AesGcmEncrypt(key, iv, data)
       IN  Ok([ciphertext |-> toBase64(ciphertext),
               iv |-> toBase64(iv),
               version |-> CRYPTO_CONFIG.VERSION])
  ELSE Fail(CryptoError("Encryption failed", "ENCRYPT_FAILED"))

\* A result of decrypt, with whether AES-GCM decryption was attempted.
Attempt(r, gcm) == [ok |-> r.ok, value |-> r.value, error |-> r.error, gcm |-> gcm]

\* A plausible slip: the catch block reports every failure as DECRYPT_FAILED.
decrypt_noIntegrityKind(payload, key) ==
  IF payload.version # CRYPTO_CONFIG.VERSION
  THEN Attempt(Fail(CryptoError("Decryption failed: Error: Unsupported version: "
                                  \o ToString(payload.version),
                                "DECRYPT_FAILED")), FALSE)
  ELSE LET plaintext == AesGcmDecrypt(key, fromBase64(payload.iv),
                                      fromBase64(payload.ciphertext))
       IN  IF plaintext.ok
           THEN Attempt(Ok(bytesToString(plaintext.value)), TRUE)
           ELSE Attempt(Fail(CryptoError("Decryption failed", "DECRYPT_FAILED")), TRUE)

\* crypto.ts: decrypt.  The version error is thrown inside the try block, so
\* the catch block wraps it: it is no DOMException, hence DECRYPT_FAILED.
decrypt(payload, key) ==
  IF payload.version # CRYPTO_CONFIG.VERSION
  THEN Attempt(Fail(CryptoError("Decryption failed: Error: Unsupported version: "
                                  \o ToString(payload.version),
                                "DECRYPT_FAILED")), FALSE)
  ELSE LET plaintext == AesGcmDecrypt(key, fromBase64(payload.iv),
                                      fromBase64(payload.ciphertext))
       IN  IF plaintext.ok
           THEN Attempt(Ok(bytesToString(plaintext.value)), TRUE)
           ELSE IF plaintext.error.type = "DOMException"
                   /\ plaintext.error.code = "OperationError"
                THEN Attempt(Fail(CryptoError("Decryption failed: integrity check failed",
                                              "INTEGRITY_FAILED")), TRUE)
                ELSE Attempt(Fail(CryptoError("Decryption failed", "DECRYPT_FAILED")), TRUE)

\* crypto.ts: encryptObject
encryptObject(obj, key, r) == encrypt(JsonStringify(obj), key, r)

\* crypto.ts: decryptObject
decryptObject(payload, key) ==
  LET json == decrypt(payload, key)
  IN  IF json.ok THEN Attempt(Ok(JsonParse(json.value)), json.gcm) ELSE json

\* ------------------------------------------------------------ replay guard

\* Iterations of: for (let i = 0; i < MAX_NONCES * 0.2; i++)
EvictCount == (MAX_NONCES + 4) \div 5

\* A plausible slip: the nonce is checked but never recorded.
validateNonce_forgetful(seen, nonce) ==
  [valid |-> ~(\E i \in 1..Len(seen) : seen[i] = nonce), seen |-> seen,
   evicted |-> FALSE]

\* A plausible slip: at capacity the oldest entries are evicted and the new
\* nonce is not added.
validateNonce_dropsAtCapacity(seen, nonce) ==
  IF \E i \in 1..Len(seen) : seen[i] = nonce
  THEN [valid |-> FALSE, seen |-> seen, evicted |-> FALSE]
  ELSE IF Len(seen) >= MAX_NONCES
       THEN [valid |-> TRUE, seen |-> SubSeq(seen, EvictCount + 1, Len(seen)),
             evicted |-> TRUE]
       ELSE [valid |-> TRUE, seen |-> Append(seen, nonce), evicted |-> FALSE]

\* A plausible slip: no eviction.
validateNonce_noEviction(seen, nonce) ==
  IF \E i \in 1..Len(seen) : seen[i] = nonce
  THEN [valid |-> FALSE, seen |-> seen, evicted |-> FALSE]
  ELSE [valid |-> TRUE, seen |-> Append(seen, nonce), evicted |-> FALSE]

\* A plausible slip: the most recently inserted entries evicted.
validateNonce_evictsNewest(seen, nonce) ==
  IF \E i \in 1..Len(seen) : seen[i] = nonce
  THEN [valid |-> FALSE, seen |-> seen, evicted |-> FALSE]
  ELSE IF Len(seen) >= MAX_NONCES
       THEN [valid |-> TRUE,
             seen |-> Append(SubSeq(seen, 1, Len(seen) - EvictCount), nonce),
             evicted |-> TRUE]
       ELSE [valid |-> TRUE, seen |-> Append(seen, nonce), evicted |-> FALSE]

\* crypto.ts: validateNonce, on the seen-nonce set (a Set iterates in insertion
\* order, so it is a duplicate-free sequence).  Yields the verdict and the set.
validateNonce(seen, nonce) ==
  IF \E i \in 1..Len(seen) : seen[i] = nonce
  THEN [valid |-> FALSE, seen |-> seen, evicted |-> FALSE]
  ELSE IF Len(seen) >= MAX_NONCES
       THEN [valid |-> TRUE,
             seen |-> Append(SubSeq(seen, EvictCount + 1, Len(seen)), nonce),
             evicted |-> TRUE]
       ELSE [valid |-> TRUE, seen |-> Append(seen, nonce), evicted |-> FALSE]

\* A plausible slip: the set left as it is.
clearNonces_keeps(seen) == seen

\* crypto.ts: clearNonces
clearNonces(seen) == << >>

\* -------------------------------------------------------------------- state

\* Browsers running the application, and the uids Firebase Auth can issue
\* ("a", "b", "c" as code units).
Devices == {"d1", "d2"}
UserIds == {<<97>>, <<98>>, <<99>>}
Texts == {Str("hi"), Str("yo")}

VARIABLES
  currentUser,        \* auth.currentUser, per device (NoUser: signed out)
  issuedUids,         \* Firebase Auth: the uids issued so far
  isInitialized,      \* useEncryption state, per device
  isInitializing,
  initError,
  myPrivateKey,
  myPublicKey,
  myPublicKeyBase64,
  conversationKeys,   \* Map recipientId -> CryptoKey, per device
  publicKeyCache,     \* Map userId -> CryptoKey, per device
  seenNonces,         \* crypto.ts seenNonces, per device
  identityStore,      \* IndexedDB store 'identity', per device
  publicKeys,         \* Firestore collection publicKeys
  messageStore,       \* Firestore messages, in createdAt order; the id is the index
  view,               \* the mounted useEncryptedChat instance, per device
  rng,                \* the CSPRNG: what it yields next, per use
  validated,          \* observation: nonces the guard accepted, per device, since
                      \* its last clearNonces or eviction
  origin,             \* observation: how each stored document came about
  fnIn,               \* a pure function's arguments
  fnOut               \* and its result

vars == <<currentUser, issuedUids, isInitialized, isInitializing, initError,
          myPrivateKey, myPublicKey, myPublicKeyBase64, conversationKeys,
          publicKeyCache, seenNonces, identityStore, publicKeys, messageStore,
          view, rng, validated, origin, fnIn, fnOut>>

encryptionVars == <<isInitialized, isInitializing, initError, myPrivateKey,
                    myPublicKey, myPublicKeyBase64>>
observationVars == <<validated, origin>>
fnVars == <<fnIn, fnOut>>

\* conversationId.value = null
NoConversation == << >>

NoView == [mounted |-> FALSE, recipientId |-> NoUser, conversationId |-> NoConversation,
           subscribed |-> FALSE, decryptedCache |-> << >>, messages |-> << >>,
           error |-> Null]

EmptyMap == [u \in UserIds |-> Null]

Init ==
  /\ currentUser = [d \in Devices |-> NoUser]
  /\ issuedUids = {}
  /\ isInitialized = [d \in Devices |-> FALSE]
  /\ isInitializing = [d \in Devices |-> FALSE]
  /\ initError = [d \in Devices |-> Null]
  /\ myPrivateKey = [d \in Devices |-> Null]
  /\ myPublicKey = [d \in Devices |-> Null]
  /\ myPublicKeyBase64 = [d \in Devices |-> Null]
  /\ conversationKeys = [d \in Devices |-> EmptyMap]
  /\ publicKeyCache = [d \in Devices |-> EmptyMap]
  /\ seenNonces = [d \in Devices |-> << >>]
  /\ identityStore = [d \in Devices |-> EmptyMap]
  /\ publicKeys = EmptyMap
  /\ messageStore = << >>
  /\ view = [d \in Devices |-> NoView]
  /\ rng = [key |-> 1, nonce |-> 1, iv |-> 1]
  /\ validated = [d \in Devices |-> {}]
  /\ origin = << >>
  /\ fnIn = Null
  /\ fnOut = Null

\* ------------------------------------------------------------- key exchange

\* The module-level state of useEncryption and crypto.ts on device d, as the
\* functions below read and write it.
DeviceState(d) ==
  [currentUser |-> currentUser[d],
   myPrivateKey |-> myPrivateKey[d],
   publicKeyCache |-> publicKeyCache[d],
   conversationKeys |-> conversationKeys[d],
   seenNonces |-> seenNonces[d]]

\* A string of code units as text, for template literals (the code units in
\* use: '_', 'a', 'b', 'c').
RECURSIVE TextOf(_)
TextOf(s) ==
  IF s = << >> THEN ""
  ELSE (CASE Head(s) = 95 -> "_" [] Head(s) = 97 -> "a"
          [] Head(s) = 98 -> "b" [] Head(s) = 99 -> "c" [] OTHER -> "?")
       \o TextOf(Tail(s))

\* A plausible slip: the directory read before the cache is looked at.
getRecipientPublicKey_alwaysFetches(ds, recipientId) ==
  LET cached == ds.publicKeyCache[recipientId]
      snapshot == publicKeys[recipientId]
  IN  IF snapshot = Null
      THEN [result |-> Fail(PlainError("Public key not found for user: "
                                       \o TextOf(recipientId))),
            ds |-> ds, fetched |-> <<recipientId>>]
      ELSE IF cached # Null
      THEN [result |-> Ok(cached), ds |-> ds, fetched |-> <<recipientId>>]
      ELSE LET publicKey == importPublicKey(snapshot.publicKey)
           IN  IF publicKey.ok
               THEN [result |-> publicKey,
                     ds |-> [ds EXCEPT !.publicKeyCache[recipientId] = publicKey.value],
                     fetched |-> <<recipientId>>]
               ELSE [result |-> publicKey, ds |-> ds, fetched |-> <<recipientId>>]

\* useEncryption: getRecipientPublicKey.  Yields the result, the state after,
\* and the ids of the publicKeys documents it read with getDoc.
getRecipientPublicKey(ds, recipientId) ==
  LET cached == ds.publicKeyCache[recipientId]
      snapshot == publicKeys[recipientId]
  IN  IF cached # Null
      THEN [result |-> Ok(cached), ds |-> ds, fetched |-> << >>]
      ELSE IF snapshot = Null
      THEN [result |-> Fail(PlainError("Public key not found for user: "
                                       \o TextOf(recipientId))),
            ds |-> ds, fetched |-> <<recipientId>>]
      ELSE LET publicKey == importPublicKey(snapshot.publicKey)
           IN  IF publicKey.ok
               THEN [result |-> publicKey,
                     ds |-> [ds EXCEPT !.publicKeyCache[recipientId] = publicKey.value],
                     fetched |-> <<recipientId>>]
               ELSE [result |-> publicKey, ds |-> ds, fetched |-> <<recipientId>>]

\* A plausible slip: the derived key returned and not put in the cache.
getConversationKey_noCacheWrite(ds, recipientId) ==
  LET user == ds.currentUser
      cached == ds.conversationKeys[recipientId]
      none == [fetched |-> << >>, derived |-> 0]
  IN  IF user = NoUser
      THEN [result |-> Fail(PlainError("Not authenticated")), ds |-> ds] @@ none
      ELSE IF ds.myPrivateKey = Null
      THEN [result |-> Fail(PlainError("Encryption not initialized")), ds |-> ds] @@ none
      ELSE IF cached # Null
      THEN [result |-> Ok(cached), ds |-> ds] @@ none
      ELSE LET recipientPublicKey == getRecipientPublicKey(ds, recipientId)
           IN  IF ~recipientPublicKey.result.ok
               THEN [result |-> recipientPublicKey.result, ds |-> recipientPublicKey.ds,
                     fetched |-> recipientPublicKey.fetched, derived |-> 0]
               ELSE [result |-> deriveConversationKey(ds.myPrivateKey,
                                  recipientPublicKey.result.value,
                                  createConversationId(user, recipientId)),
                     ds |-> recipientPublicKey.ds,
                     fetched |-> recipientPublicKey.fetched, derived |-> 1]

\* A plausible slip: the identity key looked at before the signed-in user.
getConversationKey_guardsSwapped(ds, recipientId) ==
  LET none == [fetched |-> << >>, derived |-> 0]
  IN  IF ds.myPrivateKey = Null
      THEN [result |-> Fail(PlainError("Encryption not initialized")), ds |-> ds] @@ none
      ELSE IF ds.currentUser = NoUser
      THEN [result |-> Fail(PlainError("Not authenticated")), ds |-> ds] @@ none
      ELSE getConversationKey_noCacheWrite(ds, recipientId)

\* useEncryption: getConversationKey.  Yields the result, the state after, the
\* publicKeys documents read and the number of deriveConversationKey calls.
getConversationKey(ds, recipientId) ==
  LET user == ds.currentUser
      cached == ds.conversationKeys[recipientId]
      none == [fetched |-> << >>, derived |-> 0]
  IN  IF user = NoUser
      THEN [result |-> Fail(PlainError("Not authenticated")), ds |-> ds] @@ none
      ELSE IF ds.myPrivateKey = Null
      THEN [result |-> Fail(PlainError("Encryption not initialized")), ds |-> ds] @@ none
      ELSE IF cached # Null
      THEN [result |-> Ok(cached), ds |-> ds] @@ none
      ELSE LET recipientPublicKey == getRecipientPublicKey(ds, recipientId)
           IN  IF ~recipientPublicKey.result.ok
               THEN [result |-> recipientPublicKey.result, ds |-> recipientPublicKey.ds,
                     fetched |-> recipientPublicKey.fetched, derived |-> 0]
               ELSE LET conversationId == createConversationId(user, recipientId)
                        key == deriveConversationKey(ds.myPrivateKey,
                                                     recipientPublicKey.result.value,
                                                     conversationId)
                    IN  IF key.ok
                        THEN [result |-> key,
                              ds |-> [recipientPublicKey.ds EXCEPT
                                        !.conversationKeys[recipientId] = key.value],
                              fetched |-> recipientPublicKey.fetched, derived |-> 1]
                        ELSE [result |-> key, ds |-> recipientPublicKey.ds,
                              fetched |-> recipientPublicKey.fetched, derived |-> 1]

\* ---------------------------------------------------------- message codec

\* A plausible slip: generateNonce() called once for the plaintext and once
\* more for the returned messageNonce.
encryptMessage_twoNonces(ds, recipientId, content, nonceBytes, ivBytes) ==
  LET key == getConversationKey(ds, recipientId)
  IN  IF ~key.result.ok
      THEN key
      ELSE LET payload == ObjSpreadSet(content, "_nonce", generateNonce(nonceBytes))
               encrypted == encryptObject(payload, key.result.value, ivBytes)
           IN  IF ~encrypted.ok
               THEN [result |-> encrypted, ds |-> key.ds]
               ELSE [result |-> Ok([encrypted |-> encrypted.value,
                                    messageNonce |-> generateNonce(nonceBytes + 1)]),
                     ds |-> key.ds]

\* useEncryption: encryptMessage, on the random nonce and IV bytes.
encryptMessage(ds, recipientId, content, nonceBytes, ivBytes) ==
  LET key == getConversationKey(ds, recipientId)
  IN  IF ~key.result.ok
      THEN key
      ELSE LET nonce == generateNonce(nonceBytes)
               payload == ObjSpreadSet(content, "_nonce", nonce)
               encrypted == encryptObject(payload, key.result.value, ivBytes)
           IN  IF ~encrypted.ok
               THEN [result |-> encrypted, ds |-> key.ds]
               ELSE [result |-> Ok([encrypted |-> encrypted.value,
                                    messageNonce |-> nonce]),
                     ds |-> key.ds]

\* A plausible slip: the embedded nonce is never compared.
NonceMismatch_never(decrypted, messageNonce) == FALSE

\* decryptMessage: if (decrypted._nonce !== messageNonce)
NonceMismatch(decrypted, messageNonce) == ObjGet(decrypted, "_nonce") # messageNonce

\* A plausible slip: the operands of the guard swapped,
\* if (!validateNonce(messageNonce) && !skipReplayCheck), so that the nonce is
\* recorded for historical messages too.
decryptMessage_guardFirst(ds, senderId, encrypted, messageNonce, skipReplayCheck) ==
  LET key == getConversationKey(ds, senderId)
  IN  IF ~key.result.ok
      THEN [result |-> Attempt(key.result, FALSE), ds |-> key.ds, evicted |-> FALSE]
      ELSE
  LET decrypted == decryptObject(encrypted, key.result.value)
  IN  IF ~decrypted.ok
      THEN [result |-> decrypted, ds |-> key.ds, evicted |-> FALSE]
      ELSE IF NonceMismatch(decrypted.value, messageNonce)
      THEN [result |-> Attempt(Fail(PlainError(
                         "Message nonce mismatch - possible tampering")), TRUE),
            ds |-> key.ds, evicted |-> FALSE]
      ELSE
  LET guard == validateNonce(key.ds.seenNonces, messageNonce)
  IN  IF ~guard.valid /\ ~skipReplayCheck
      THEN [result |-> Attempt(Fail(PlainError(
                         "Duplicate nonce - possible replay attack")), TRUE),
            ds |-> key.ds, evicted |-> FALSE]
      ELSE [result |-> Attempt(Ok(ObjRest(decrypted.value, "_nonce")), TRUE),
            ds |-> [key.ds EXCEPT !.seenNonces = guard.seen],
            evicted |-> guard.evicted]

\* A plausible slip: the replay guard consulted before the embedded nonce is
\* compared.
decryptMessage_replayBeforeMismatch(ds, senderId, encrypted, messageNonce, skipReplayCheck) ==
  LET key == getConversationKey(ds, senderId)
  IN  IF ~key.result.ok
      THEN [result |-> Attempt(key.result, FALSE), ds |-> key.ds, evicted |-> FALSE]
      ELSE
  LET decrypted == decryptObject(encrypted, key.result.value)
      guard == validateNonce(key.ds.seenNonces, messageNonce)
  IN  IF ~decrypted.ok
      THEN [result |-> decrypted, ds |-> key.ds, evicted |-> FALSE]
      ELSE IF ~skipReplayCheck /\ ~guard.valid
      THEN [result |-> Attempt(Fail(PlainError(
                         "Duplicate nonce - possible replay attack")), TRUE),
            ds |-> key.ds, evicted |-> FALSE]
      ELSE IF NonceMismatch(decrypted.value, messageNonce)
      THEN [result |-> Attempt(Fail(PlainError(
                         "Message nonce mismatch - possible tampering")), TRUE),
            ds |-> key.ds, evicted |-> FALSE]
      ELSE IF skipReplayCheck
      THEN [result |-> Attempt(Ok(ObjRest(decrypted.value, "_nonce")), TRUE),
            ds |-> key.ds, evicted |-> FALSE]
      ELSE [result |-> Attempt(Ok(ObjRest(decrypted.value, "_nonce")), TRUE),
            ds |-> [key.ds EXCEPT !.seenNonces = guard.seen],
            evicted |-> guard.evicted]

\* useEncryption: decryptMessage.  Yields the result, the state after, and
\* whether the replay guard evicted.
decryptMessage(ds, senderId, encrypted, messageNonce, skipReplayCheck) ==
  LET key == getConversationKey(ds, senderId)
  IN  IF ~key.result.ok
      THEN [result |-> Attempt(key.result, FALSE), ds |-> key.ds, evicted |-> FALSE]
      ELSE
  LET decrypted == decryptObject(encrypted, key.result.value)
  IN  IF ~decrypted.ok
      THEN [result |-> decrypted, ds |-> key.ds, evicted |-> FALSE]
      ELSE IF NonceMismatch(decrypted.value, messageNonce)
      THEN [result |-> Attempt(Fail(PlainError(
                         "Message nonce mismatch - possible tampering")), TRUE),
            ds |-> key.ds, evicted |-> FALSE]
      ELSE IF skipReplayCheck
      THEN [result |-> Attempt(Ok(ObjRest(decrypted.value, "_nonce")), TRUE),
            ds |-> key.ds, evicted |-> FALSE]
      ELSE
  LET guard == validateNonce(key.ds.seenNonces, messageNonce)
  IN  IF ~guard.valid
      THEN [result |-> Attempt(Fail(PlainError(
                         "Duplicate nonce - possible replay attack")), TRUE),
            ds |-> key.ds, evicted |-> FALSE]
      ELSE [result |-> Attempt(Ok(ObjRest(decrypted.value, "_nonce")), TRUE),
            ds |-> [key.ds EXCEPT !.seenNonces = guard.seen],
            evicted |-> guard.evicted]

\* ------------------------------------------------------------ authentication

\* The uid Firebase Auth issues next.  Uids are opaque, so which unissued one
\* it is does not matter up to renaming: the least is taken.
NextUid ==
  CHOOSE uid \in UserIds \ issuedUids :
    \A other \in UserIds \ issuedUids : ~StrLess(other, uid)

\* useAuth: signIn.  signInAnonymously creates an account with a new uid.
SignIn(d) ==
  /\ currentUser[d] = NoUser
  /\ UserIds \ issuedUids # {}
  /\ currentUser' = [currentUser EXCEPT ![d] = NextUid]
  /\ issuedUids' = issuedUids \cup {NextUid}
  /\ UNCHANGED <<encryptionVars, conversationKeys, publicKeyCache, seenNonces,
                 identityStore, publicKeys, messageStore, view, rng,
                 observationVars, fnVars>>

\* useAuth: signOut, as EncryptedApp's handleSignOut runs it: clearNonces,
\* clearAllKeys (which clears the IndexedDB store 'conversations', a store
\* nothing writes, and leaves 'identity'), firebaseSignOut; the chat view is
\* unmounted once the user is gone.  The in-memory state of useEncryption is
\* not touched.
SignOut(d) ==
  /\ currentUser[d] # NoUser
  /\ seenNonces' = [seenNonces EXCEPT ![d] = clearNonces(seenNonces[d])]
  /\ currentUser' = [currentUser EXCEPT ![d] = NoUser]
  /\ view' = [view EXCEPT ![d] = NoView]
  /\ validated' = [validated EXCEPT ![d] = {}]
  /\ UNCHANGED <<issuedUids, encryptionVars, conversationKeys, publicKeyCache,
                 identityStore, publicKeys, messageStore, rng, origin, fnVars>>

\* ------------------------------------------------------------ initialization

\* useEncryption: publishPublicKey (setDoc with merge) on the directory
publishPublicKey(directory, userId, publicKey) ==
  [directory EXCEPT ![userId] = [userId |-> userId, publicKey |-> publicKey]]

\* useEncryption: ensurePublicKeyPublished
ensurePublicKeyPublished(directory, userId, publicKeyBase64) ==
  IF directory[userId] = Null /\ publicKeyBase64 # Null
  THEN publishPublicKey(directory, userId, publicKeyBase64)
  ELSE directory

\* The state initializeEncryption reads and writes, as it is on device d.
InitializationState(d) ==
  [myPrivateKey |-> myPrivateKey[d],
   myPublicKey |-> myPublicKey[d],
   myPublicKeyBase64 |-> myPublicKeyBase64[d],
   identityStore |-> identityStore[d],
   publicKeys |-> publicKeys,
   rng |-> rng,
   isInitialized |-> isInitialized[d],
   isInitializing |-> isInitializing[d],
   initError |-> initError[d]]

\* A plausible slip: no early return when already initialized.
initializeEncryption_noGuard(d) ==
  LET user == currentUser[d]
      stored == identityStore[d][user]
      keyPair == generateKeyPair(rng.key)
      exported == exportKeyPair(keyPair)
  IN  IF user = NoUser THEN InitializationState(d)
      ELSE IF stored # Null
      THEN [InitializationState(d) EXCEPT
              !.myPrivateKey = importPrivateKey(stored.privateKey).value,
              !.myPublicKey = importPublicKey(stored.publicKey).value,
              !.myPublicKeyBase64 = stored.publicKey,
              !.publicKeys = ensurePublicKeyPublished(publicKeys, user, stored.publicKey),
              !.isInitialized = TRUE, !.isInitializing = FALSE, !.initError = Null]
      ELSE [InitializationState(d) EXCEPT
              !.myPrivateKey = keyPair.privateKey,
              !.myPublicKey = keyPair.publicKey,
              !.myPublicKeyBase64 = exported.publicKey,
              !.identityStore[user] =
                 [userId |-> user, publicKey |-> exported.publicKey,
                  privateKey |-> exported.privateKey],
              !.publicKeys = ensurePublicKeyPublished(
                               publishPublicKey(publicKeys, user, exported.publicKey),
                               user, exported.publicKey),
              !.rng = [rng EXCEPT !.key = @ + 1],
              !.isInitialized = TRUE, !.isInitializing = FALSE, !.initError = Null]

\* A plausible slip: a key pair generated on every initialization, the stored
\* record not consulted.
initializeEncryption_alwaysGenerates(d) ==
  LET user == currentUser[d]
      keyPair == generateKeyPair(rng.key)
      exported == exportKeyPair(keyPair)
  IN  IF user = NoUser \/ isInitialized[d] \/ isInitializing[d]
      THEN InitializationState(d)
      ELSE [InitializationState(d) EXCEPT
              !.myPrivateKey = keyPair.privateKey,
              !.myPublicKey = keyPair.publicKey,
              !.myPublicKeyBase64 = exported.publicKey,
              !.identityStore[user] =
                 [userId |-> user, publicKey |-> exported.publicKey,
                  privateKey |-> exported.privateKey],
              !.publicKeys = ensurePublicKeyPublished(
                               publishPublicKey(publicKeys, user, exported.publicKey),
                               user, exported.publicKey),
              !.rng = [rng EXCEPT !.key = @ + 1],
              !.isInitialized = TRUE, !.isInitializing = FALSE, !.initError = Null]

\* useEncryption: initializeEncryption past its guards, every step of the try
\* block succeeding: the state it leaves on device d.
initializeEncryptionRun(d) ==
  LET user == currentUser[d]
      stored == identityStore[d][user]
      keyPair == generateKeyPair(rng.key)
      exported == exportKeyPair(keyPair)
  IN  IF stored # Null
      THEN [InitializationState(d) EXCEPT
              !.myPrivateKey = importPrivateKey(stored.privateKey).value,
              !.myPublicKey = importPublicKey(stored.publicKey).value,
              !.myPublicKeyBase64 = stored.publicKey,
              !.publicKeys = ensurePublicKeyPublished(publicKeys, user, stored.publicKey),
              !.isInitialized = TRUE, !.isInitializing = FALSE, !.initError = Null]
      ELSE [InitializationState(d) EXCEPT
              !.myPrivateKey = keyPair.privateKey,
              !.myPublicKey = keyPair.publicKey,
              !.myPublicKeyBase64 = exported.publicKey,
              !.identityStore[user] =
                 [userId |-> user, publicKey |-> exported.publicKey,
                  privateKey |-> exported.privateKey],
              !.publicKeys = ensurePublicKeyPublished(
                               publishPublicKey(publicKeys, user, exported.publicKey),
                               user, exported.publicKey),
              !.rng = [rng EXCEPT !.key = @ + 1],
              !.isInitialized = TRUE, !.isInitializing = FALSE, !.initError = Null]

\* useEncryption: initializeEncryption, every step past the guards succeeding:
\* the state it leaves on device d.  Without a user it throws before touching
\* anything; when initialized or initializing it returns at once.
initializeEncryption(d) ==
  IF currentUser[d] = NoUser THEN InitializationState(d)
  ELSE IF isInitialized[d] \/ isInitializing[d] THEN InitializationState(d)
  ELSE initializeEncryptionRun(d)

ApplyInitialization(d, after) ==
  /\ myPrivateKey' = [myPrivateKey EXCEPT ![d] = after.myPrivateKey]
  /\ myPublicKey' = [myPublicKey EXCEPT ![d] = after.myPublicKey]
  /\ myPublicKeyBase64' = [myPublicKeyBase64 EXCEPT ![d] = after.myPublicKeyBase64]
  /\ identityStore' = [identityStore EXCEPT ![d] = after.identityStore]
  /\ publicKeys' = after.publicKeys
  /\ rng' = after.rng
  /\ isInitialized' = [isInitialized EXCEPT ![d] = after.isInitialized]
  /\ isInitializing' = [isInitializing EXCEPT ![d] = after.isInitializing]
  /\ initError' = [initError EXCEPT ![d] = after.initError]

\* EncryptedApp: watch(isAuthenticated) / handleAuthenticated calling
\* initializeEncryption once a user is signed in.
InitializeEncryption(d) ==
  /\ currentUser[d] # NoUser
  /\ ApplyInitialization(d, initializeEncryption(d))
  /\ UNCHANGED <<currentUser, issuedUids, conversationKeys, publicKeyCache,
                 seenNonces, messageStore, view, observationVars, fnVars>>

\* The page is loaded again: the module state of useEncryption, crypto.ts and
\* the chat view starts over; Firebase Auth restores the signed-in user
\* (onAuthStateChanged) and IndexedDB keeps the identity records.
Reload(d) ==
  /\ \/ isInitialized[d] \/ view[d].mounted \/ seenNonces[d] # << >>
     \/ initError[d] # Null \/ myPrivateKey[d] # Null
  /\ isInitialized' = [isInitialized EXCEPT ![d] = FALSE]
  /\ isInitializing' = [isInitializing EXCEPT ![d] = FALSE]
  /\ initError' = [initError EXCEPT ![d] = Null]
  /\ myPrivateKey' = [myPrivateKey EXCEPT ![d] = Null]
  /\ myPublicKey' = [myPublicKey EXCEPT ![d] = Null]
  /\ myPublicKeyBase64' = [myPublicKeyBase64 EXCEPT ![d] = Null]
  /\ conversationKeys' = [conversationKeys EXCEPT ![d] = EmptyMap]
  /\ publicKeyCache' = [publicKeyCache EXCEPT ![d] = EmptyMap]
  /\ seenNonces' = [seenNonces EXCEPT ![d] = << >>]
  /\ view' = [view EXCEPT ![d] = NoView]
  /\ validated' = [validated EXCEPT ![d] = {}]
  /\ UNCHANGED <<currentUser, issuedUids, identityStore, publicKeys,
                 messageStore, rng, origin, fnVars>>

\* ------------------------------------------------------------------ chat view

\* useEncryptedChat(recipientId) and its initialize(): encryption is
\* initialized if it is not yet, the conversation id is set and the view
\* subscribes.  (The conversations/{id} metadata document is not modelled.)
MountView(d, recipientId) ==
  /\ currentUser[d] # NoUser
  /\ ~view[d].mounted
  /\ recipientId # currentUser[d]
  /\ ~isInitializing[d]
  /\ IF ~isInitialized[d]
     THEN ApplyInitialization(d, initializeEncryption(d))
     ELSE UNCHANGED <<encryptionVars, identityStore, publicKeys, rng>>
  /\ view' = [view EXCEPT ![d] =
       [NoView EXCEPT !.mounted = TRUE,
                      !.recipientId = recipientId,
                      !.conversationId = createConversationId(currentUser[d], recipientId),
                      !.subscribed = TRUE]]
  /\ UNCHANGED <<currentUser, issuedUids, conversationKeys, publicKeyCache,
                 seenNonces, messageStore, observationVars, fnVars>>

\* EncryptedApp: handleBack; the view's onUnmounted unsubscribes.
UnmountView(d) ==
  /\ view[d].mounted
  /\ view' = [view EXCEPT ![d] = NoView]
  /\ UNCHANGED <<currentUser, issuedUids, encryptionVars, conversationKeys,
                 publicKeyCache, seenNonces, identityStore, publicKeys,
                 messageStore, rng, observationVars, fnVars>>

ApplyDeviceState(d, ds) ==
  /\ publicKeyCache' = [publicKeyCache EXCEPT ![d] = ds.publicKeyCache]
  /\ conversationKeys' = [conversationKeys EXCEPT ![d] = ds.conversationKeys]
  /\ seenNonces' = [seenNonces EXCEPT ![d] = ds.seenNonces]

\* User uid has a record in the publicKeys directory.
Published(uid) == publicKeys[uid] # Null

\* Device d has initialized encryption for the user signed in on it: its
\* identity key pair is the one the directory holds for that user.
Ready(d) ==
  /\ currentUser[d] # NoUser
  /\ isInitialized[d]
  /\ publicKeys[currentUser[d]] # Null
  /\ publicKeys[currentUser[d]].publicKey = myPublicKeyBase64[d]

\* A plausible slip: the text kept in the document next to its encryption.
messageData_withText(uid, recipientId, senderUsername, conversationId, createdAt, sent) ==
  [senderId |-> uid,
   recipientId |-> recipientId,
   senderUsername |-> senderUsername,
   conversationId |-> conversationId,
   createdAt |-> createdAt,
   text |-> ObjGet(JsonParse(bytesToString(
              fromBase64(sent.encrypted.ciphertext).sealed.data)), "text"),
   encrypted |-> sent.encrypted,
   messageNonce |-> sent.messageNonce]

\* sendMessage: the document written to conversations/{id}/messages, from
\* what encryptMessage returned.  createdAt (Date.now()) is the position in
\* the collection's createdAt order.
messageData(uid, recipientId, senderUsername, conversationId, createdAt, sent) ==
  [senderId |-> uid,
   recipientId |-> recipientId,
   senderUsername |-> senderUsername,
   conversationId |-> conversationId,
   createdAt |-> createdAt,
   encrypted |-> sent.encrypted,
   messageNonce |-> sent.messageNonce]

\* useEncryptedChat: sendMessage(text, senderUsername) with a non-blank text;
\* EncryptedChatView passes the display name, 'Anonymous' when there is none.
SendMessage(d, text) ==
  /\ view[d].mounted
  /\ currentUser[d] # NoUser
  /\ view[d].conversationId # NoConversation
  /\ Len(messageStore) < MaxDocs
  /\ LET sent == encryptMessage(DeviceState(d), view[d].recipientId,
                                <<<<"text", text>>>>, rng.nonce, rng.iv)
     IN  /\ ApplyDeviceState(d, sent.ds)
         /\ IF sent.result.ok
            THEN /\ messageStore' = Append(messageStore,
                      messageData(currentUser[d], view[d].recipientId,
                                  Str("Anonymous"), view[d].conversationId,
                                  Len(messageStore) + 1, sent.result.value))
                 /\ origin' = Append(origin,
                      [root |-> Len(messageStore) + 1,
                       content |-> <<<<"text", text>>>>,
                       senderReady |-> Ready(d)])
                 /\ rng' = [rng EXCEPT !.nonce = @ + 1, !.iv = @ + 1]
                 /\ view' = [view EXCEPT ![d].error = Null]
            ELSE /\ view' = [view EXCEPT ![d].error = Str("Failed to send message")]
                 /\ UNCHANGED <<messageStore, origin, rng>>
  /\ UNCHANGED <<currentUser, issuedUids, encryptionVars, identityStore,
                 publicKeys, validated, fnVars>>

\* useEncryptedChat: decryptMessageSafe
decryptMessageSafe(ds, msg, skipReplayCheck) ==
  IF ds.currentUser = NoUser
  THEN [result |-> Attempt(Fail(PlainError("Not authenticated")), FALSE),
        ds |-> ds, evicted |-> FALSE]
  ELSE LET partnerId == IF msg.senderId = ds.currentUser
                        THEN msg.recipientId ELSE msg.senderId
       IN  decryptMessage(ds, partnerId, msg.encrypted, msg.messageNonce,
                          skipReplayCheck)

CacheHas(cache, msgId) == \E i \in 1..Len(cache) : cache[i].id = msgId
CacheGet(cache, msgId) == cache[CHOOSE i \in 1..Len(cache) : cache[i].id = msgId]

\* A plausible slip: the catch block builds its entry without the mark.
DecryptedEntry_unmarked(msgId, data, decrypted) ==
  [id |-> msgId,
   senderId |-> data.senderId,
   recipientId |-> data.recipientId,
   conversationId |-> data.conversationId,
   text |-> IF decrypted.ok THEN ObjGet(decrypted.value, "text") ELSE Undefined,
   decryptionFailed |-> FALSE]

\* The DecryptedMessage the snapshot handler builds for document msgId.
DecryptedEntry(msgId, data, decrypted) ==
  [id |-> msgId,
   senderId |-> data.senderId,
   recipientId |-> data.recipientId,
   conversationId |-> data.conversationId,
   text |-> IF decrypted.ok THEN ObjGet(decrypted.value, "text") ELSE Undefined,
   decryptionFailed |-> ~decrypted.ok]

\* useEncryptedChat: the body of the onSnapshot callback's loop, over the
\* document ids left to process.  acc holds the device state, the view's
\* decryptedCache and the decryptedMessages built so far.
RECURSIVE ProcessDocs(_, _)
ProcessDocs(docIds, acc) ==
  IF docIds = << >> THEN acc
  ELSE LET msgId == Head(docIds)
           data == messageStore[msgId]
       IN  IF CacheHas(acc.decryptedCache, msgId)
           THEN ProcessDocs(Tail(docIds),
                  [acc EXCEPT !.decryptedMessages =
                     Append(@, CacheGet(acc.decryptedCache, msgId))])
           ELSE LET content == decryptMessageSafe(acc.ds, data, TRUE)
                    entry == DecryptedEntry(msgId, data, content.result)
                IN  ProcessDocs(Tail(docIds),
                      [ds |-> content.ds,
                       decryptedCache |-> Append(acc.decryptedCache, entry),
                       decryptedMessages |-> Append(acc.decryptedMessages, entry)])

\* The documents of a conversation, oldest first (the view's query).
RECURSIVE QueryFrom(_, _)
QueryFrom(conversationId, i) ==
  IF i > Len(messageStore) THEN << >>
  ELSE IF messageStore[i].conversationId = conversationId
       THEN <<i>> \o QueryFrom(conversationId, i + 1)
       ELSE QueryFrom(conversationId, i + 1)

\* useEncryptedChat: the onSnapshot callback, run on the current documents.
OnSnapshot(d) ==
  /\ view[d].subscribed
  /\ LET done == ProcessDocs(QueryFrom(view[d].conversationId, 1),
                   [ds |-> DeviceState(d),
                    decryptedCache |-> view[d].decryptedCache,
                    decryptedMessages |-> << >>])
     IN  /\ ApplyDeviceState(d, done.ds)
         /\ view' = [view EXCEPT ![d].decryptedCache = done.decryptedCache,
                                 ![d].messages = done.decryptedMessages]
  /\ UNCHANGED <<currentUser, issuedUids, encryptionVars, identityStore,
                 publicKeys, messageStore, rng, observationVars, fnVars>>

\* ------------------------------------------------------------------ the relay

\* The message store is untrusted: it may hold a further document made from
\* a stored one.  Bit positions of a ciphertext that may be flipped:
Bits == {0, 1}

Forged(i, doc) ==
  /\ Len(messageStore) < MaxDocs
  /\ messageStore' = Append(messageStore,
                            [doc EXCEPT !.createdAt = Len(messageStore) + 1])
  /\ origin' = Append(origin, origin[i])
  /\ UNCHANGED <<currentUser, issuedUids, encryptionVars, conversationKeys,
                 publicKeyCache, seenNonces, identityStore, publicKeys, view, rng,
                 validated, fnVars>>

\* A stored document delivered again under a new document id.
RelayReplay ==
  \E i \in 1..Len(messageStore) : Forged(i, messageStore[i])

\* A copy with one bit of the ciphertext flipped.
RelayFlipBit ==
  \E i \in 1..Len(messageStore), b \in Bits :
    LET bytes == fromBase64(messageStore[i].encrypted.ciphertext)
        flipped == IF b \in bytes.flipped
                   THEN bytes.flipped \ {b} ELSE bytes.flipped \cup {b}
    IN  Forged(i, [messageStore[i] EXCEPT
                     !.encrypted.ciphertext = toBase64([bytes EXCEPT !.flipped = flipped])])

\* A copy labelled with the messageNonce of another document.
RelayRelabel ==
  \E i, j \in 1..Len(messageStore) :
    /\ messageStore[j].messageNonce # messageStore[i].messageNonce
    /\ Forged(i, [messageStore[i] EXCEPT !.messageNonce = messageStore[j].messageNonce])

\* A copy with another protocol version.
RelaySetVersion ==
  \E i \in 1..Len(messageStore), v \in {1, 2} :
    /\ v # messageStore[i].encrypted.version
    /\ Forged(i, [messageStore[i] EXCEPT !.encrypted.version = v])

\* ------------------------------------------------- direct use of the codec

\* decryptMessage(peer, doc.encrypted, doc.messageNonce, skipReplayCheck)
\* called on device d for stored document i.
CallDecryptMessage(d, peer, i, skipReplayCheck) ==
  LET doc == messageStore[i]
      call == decryptMessage(DeviceState(d), peer, doc.encrypted,
                             doc.messageNonce, skipReplayCheck)
  IN  /\ ApplyDeviceState(d, call.ds)
      /\ validated' = [validated EXCEPT ![d] =
           IF call.evicted THEN {doc.messageNonce}
           ELSE IF call.result.ok /\ ~skipReplayCheck THEN @ \cup {doc.messageNonce}
           ELSE @]
      /\ UNCHANGED <<currentUser, issuedUids, encryptionVars, identityStore,
                     publicKeys, messageStore, view, rng, origin, fnVars>>

\* ------------------------------------------------------------ specifications

\* The application: sign-in, initialization, the chat view, sending, and a
\* message store that may deliver a stored document again.
Next ==
  \/ \E d \in Devices : SignIn(d)
  \/ \E d \in Devices : SignOut(d)
  \/ \E d \in Devices : InitializeEncryption(d)
  \/ \E d \in Devices, r \in UserIds : MountView(d, r)
  \/ \E d \in Devices : UnmountView(d)
  \/ \E d \in Devices : SendMessage(d, Str("hi"))
  \/ \E d \in Devices : OnSnapshot(d)
  \/ RelayReplay

Spec == Init /\ [][Next]_vars

\* The replay guard called directly: validateNonce and clearNonces on the
\* nonces generateNonce can return, and signOut, from the state in which two
\* users are signed in.  fnOut holds the last call and what it returned.
NonceIds == 1..(MAX_NONCES + 2)

ValidateNonce(d, r) ==
  LET nonce == generateNonce(r)
      call == validateNonce(seenNonces[d], nonce)
  IN  /\ seenNonces' = [seenNonces EXCEPT ![d] = call.seen]
      /\ fnOut' = [op |-> "validateNonce", device |-> d, nonce |-> nonce,
                   before |-> seenNonces[d], after |-> call.seen,
                   valid |-> call.valid, evicted |-> call.evicted]
      /\ UNCHANGED <<currentUser, issuedUids, encryptionVars, conversationKeys,
                     publicKeyCache, identityStore, publicKeys, messageStore,
                     view, rng, observationVars, fnIn>>

ClearNonces(d) ==
  /\ seenNonces' = [seenNonces EXCEPT ![d] = clearNonces(seenNonces[d])]
  /\ fnOut' = [op |-> "clearNonces", device |-> d, nonce |-> Null,
               before |-> seenNonces[d], after |-> clearNonces(seenNonces[d]),
               valid |-> TRUE, evicted |-> FALSE]
  /\ UNCHANGED <<currentUser, issuedUids, encryptionVars, conversationKeys,
                 publicKeyCache, identityStore, publicKeys, messageStore,
                 view, rng, observationVars, fnIn>>

NextGuard ==
  \/ \E d \in Devices, r \in NonceIds : ValidateNonce(d, r)
  \/ \E d \in Devices : ClearNonces(d)
  \/ \E d \in Devices : SignOut(d)

\* The life of the identity keys on a device: sign-in, initialization, page
\* reloads, sign-out, and the chat view sending through them.
NextLifecycle ==
  \/ \E d \in Devices : SignIn(d)
  \/ \E d \in Devices : SignOut(d)
  \/ \E d \in Devices : InitializeEncryption(d)
  \/ \E d \in Devices : Reload(d)
  \/ \E d \in Devices, r \in UserIds : Published(r) /\ MountView(d, r)
  \/ \E d \in Devices : SendMessage(d, Str("hi"))
  \/ \E d \in Devices : OnSnapshot(d)

SpecLifecycle == Init /\ [][NextLifecycle]_vars

\* The message codec and the replay guard in an established conversation:
\* "a" on d1 and "b" on d2 have signed in, initialized encryption (key pairs
\* 1 and 2, published) and opened the chat with each other.
InitCodec ==
  LET uid == [d \in Devices |-> IF d = "d1" THEN <<97>> ELSE <<98>>]
      peer == [d \in Devices |-> IF d = "d1" THEN <<98>> ELSE <<97>>]
      pair == [d \in Devices |-> generateKeyPair(IF d = "d1" THEN 1 ELSE 2)]
      who == [u \in UserIds |-> IF u = <<97>> THEN "d1" ELSE "d2"]
  IN
  /\ currentUser = uid
  /\ issuedUids = {<<97>>, <<98>>}
  /\ isInitialized = [d \in Devices |-> TRUE]
  /\ isInitializing = [d \in Devices |-> FALSE]
  /\ initError = [d \in Devices |-> Null]
  /\ myPrivateKey = [d \in Devices |-> pair[d].privateKey]
  /\ myPublicKey = [d \in Devices |-> pair[d].publicKey]
  /\ myPublicKeyBase64 = [d \in Devices |-> exportKeyPair(pair[d]).publicKey]
  /\ conversationKeys = [d \in Devices |-> EmptyMap]
  /\ publicKeyCache = [d \in Devices |-> EmptyMap]
  /\ seenNonces = [d \in Devices |-> << >>]
  /\ identityStore = [d \in Devices |->
       [u \in UserIds |->
          IF u = uid[d]
          THEN [userId |-> u, publicKey |-> exportKeyPair(pair[d]).publicKey,
                privateKey |-> exportKeyPair(pair[d]).privateKey]
          ELSE Null]]
  /\ publicKeys = [u \in UserIds |->
       IF u \in {<<97>>, <<98>>}
       THEN [userId |-> u, publicKey |-> exportKeyPair(pair[who[u]]).publicKey]
       ELSE Null]
  /\ messageStore = << >>
  /\ view = [d \in Devices |->
       [NoView EXCEPT !.mounted = TRUE, !.recipientId = peer[d],
                      !.conversationId = createConversationId(uid[d], peer[d]),
                      !.subscribed = TRUE]]
  /\ rng = [key |-> 3, nonce |-> 1, iv |-> 1]
  /\ validated = [d \in Devices |-> {}]
  /\ origin = << >>
  /\ fnIn = Null
  /\ fnOut = Null

NextCodec ==
  \/ \E d \in Devices : SendMessage(d, Str("hi"))
  \/ RelayReplay
  \/ RelayFlipBit
  \/ RelayRelabel
  \/ RelaySetVersion
  \/ \E d \in Devices, i \in 1..Len(messageStore), skip \in BOOLEAN :
       \E peer \in {messageStore[i].senderId, messageStore[i].recipientId} :
         CallDecryptMessage(d, peer, i, skip)
  \/ \E d \in Devices : SignOut(d)

SpecCodec == InitCodec /\ [][NextCodec]_vars

SpecGuard == InitCodec /\ [][NextGuard]_vars

\* The pure functions, each applied once to arguments drawn from small sets.
\* User ids: the strings of one or two code units over '_', 'a', 'b'.
Strs == {<<c>> : c \in {95, 97, 98}} \cup {<<c, e>> : c, e \in {95, 97, 98}}
KeyIds == {1, 2, 3}
Contents == {<< >>} \cup {<<<<"text", t>>>> : t \in Texts}
              \cup {<<<<"text", t>>, <<"kind", Str("voice")>>>> : t \in Texts}

InitFn ==
  /\ currentUser = [d \in Devices |-> NoUser]
  /\ issuedUids = {}
  /\ isInitialized = [d \in Devices |-> FALSE]
  /\ isInitializing = [d \in Devices |-> FALSE]
  /\ initError = [d \in Devices |-> Null]
  /\ myPrivateKey = [d \in Devices |-> Null]
  /\ myPublicKey = [d \in Devices |-> Null]
  /\ myPublicKeyBase64 = [d \in Devices |-> Null]
  /\ conversationKeys = [d \in Devices |-> EmptyMap]
  /\ publicKeyCache = [d \in Devices |-> EmptyMap]
  /\ seenNonces = [d \in Devices |-> << >>]
  /\ identityStore = [d \in Devices |-> EmptyMap]
  /\ publicKeys = EmptyMap
  /\ messageStore = << >>
  /\ view = [d \in Devices |-> NoView]
  /\ rng = [key |-> 1, nonce |-> 1, iv |-> 1]
  /\ validated = [d \in Devices |-> {}]
  /\ origin = << >>
  /\ fnOut = Null
  /\ \/ fnIn \in [fn : {"createConversationId"}, uid1 : Strs, uid2 : Strs]
     \/ fnIn \in [fn : {"deriveConversationKey"}, uidA : {<<97>>, <<98>>, <<97, 98>>},
                  uidB : {<<97>>, <<98>>, <<97, 98>>}, keyA : KeyIds, keyB : KeyIds]
     \/ fnIn \in [fn : {"domainSeparation"}, keyA : KeyIds, keyB : KeyIds,
                  cid1 : {<<97, 95, 98>>, <<97, 95, 99>>, <<98, 95, 99>>},
                  cid2 : {<<97, 95, 98>>, <<97, 95, 99>>, <<98, 95, 99>>}]
     \/ fnIn \in [fn : {"roundTrip"}, content : Contents, keyA : KeyIds, keyB : KeyIds,
                  skipReplayCheck : BOOLEAN]
     \/ fnIn \in [fn : {"sendMessage"}, text1 : Texts, text2 : Texts,
                  keyA : KeyIds, keyB : KeyIds]

FnFrame ==
  UNCHANGED <<currentUser, issuedUids, encryptionVars, conversationKeys,
              publicKeyCache, seenNonces, identityStore, publicKeys, messageStore,
              view, rng, observationVars, fnIn>>

\* createConversationId(uid1, uid2) and createConversationId(uid2, uid1)
ApplyCreateConversationId ==
  /\ fnOut = Null /\ fnIn.fn = "createConversationId"
  /\ fnOut' = [forward |-> createConversationId(fnIn.uid1, fnIn.uid2),
               backward |-> createConversationId(fnIn.uid2, fnIn.uid1)]
  /\ FnFrame

\* The key A derives for B and the key B derives for A, as getConversationKey
\* calls deriveConversationKey on each side.
ApplyDeriveConversationKey ==
  /\ fnOut = Null /\ fnIn.fn = "deriveConversationKey"
  /\ fnOut' = [atA |-> deriveConversationKey(PrivateKey(fnIn.keyA), PublicKey(fnIn.keyB),
                         createConversationId(fnIn.uidA, fnIn.uidB)),
               atB |-> deriveConversationKey(PrivateKey(fnIn.keyB), PublicKey(fnIn.keyA),
                         createConversationId(fnIn.uidB, fnIn.uidA))]
  /\ FnFrame

\* Two conversation keys from one identity key pair and one shared secret,
\* and a payload of the first conversation opened with the key of the second.
ApplyDomainSeparation ==
  /\ fnOut = Null /\ fnIn.fn = "domainSeparation"
  /\ LET key1 == deriveConversationKey(PrivateKey(fnIn.keyA), PublicKey(fnIn.keyB),
                                       fnIn.cid1)
         key2 == deriveConversationKey(PrivateKey(fnIn.keyA), PublicKey(fnIn.keyB),
                                       fnIn.cid2)
         payload == encrypt(JsonStringify(<<<<"text", Str("hi")>>>>), key1.value, 1)
     IN  fnOut' = [key1 |-> key1, key2 |-> key2,
                   cross |-> decrypt(payload.value, key2.value)]
  /\ FnFrame

\* encryptMessage then decryptMessage under one conversation key, held in the
\* conversation-key cache of a signed-in, initialized user.
ApplyRoundTrip ==
  /\ fnOut = Null /\ fnIn.fn = "roundTrip"
  /\ LET key == deriveConversationKey(PrivateKey(fnIn.keyA), PublicKey(fnIn.keyB),
                                      createConversationId(<<97>>, <<98>>))
         ds == [currentUser |-> <<97>>,
                myPrivateKey |-> PrivateKey(fnIn.keyA),
                publicKeyCache |-> EmptyMap,
                conversationKeys |-> [EmptyMap EXCEPT ![<<98>>] = key.value],
                seenNonces |-> << >>]
         sent == encryptMessage(ds, <<98>>, fnIn.content, 1, 1)
         received == decryptMessage(sent.ds, <<98>>, sent.result.value.encrypted,
                                    sent.result.value.messageNonce,
                                    fnIn.skipReplayCheck)
     IN  fnOut' = [sent |-> sent.result, received |-> received.result]
  /\ FnFrame

\* sendMessage(text1) and sendMessage(text2) by "a" to "b" from the same
\* state and with the same random bytes: the two documents written.
ApplySendMessage ==
  /\ fnOut = Null /\ fnIn.fn = "sendMessage"
  /\ LET conversationId == createConversationId(<<97>>, <<98>>)
         key == deriveConversationKey(PrivateKey(fnIn.keyA), PublicKey(fnIn.keyB),
                                      conversationId)
         ds == [currentUser |-> <<97>>,
                myPrivateKey |-> PrivateKey(fnIn.keyA),
                publicKeyCache |-> EmptyMap,
                conversationKeys |-> [EmptyMap EXCEPT ![<<98>>] = key.value],
                seenNonces |-> << >>]
         sent1 == encryptMessage(ds, <<98>>, <<<<"text", fnIn.text1>>>>, 1, 1)
         sent2 == encryptMessage(ds, <<98>>, <<<<"text", fnIn.text2>>>>, 1, 1)
     IN  fnOut' = [doc1 |-> messageData(<<97>>, <<98>>, Str("Anonymous"),
                                        conversationId, 1, sent1.result.value),
                   doc2 |-> messageData(<<97>>, <<98>>, Str("Anonymous"),
                                        conversationId, 1, sent2.result.value)]
  /\ FnFrame

NextFn ==
  \/ ApplySendMessage
  \/ ApplyCreateConversationId
  \/ ApplyDeriveConversationKey
  \/ ApplyDomainSeparation
  \/ ApplyRoundTrip

SpecFn == InitFn /\ [][NextFn]_vars

\* --------------------------------------------------------------------- claims

Docs == 1..Len(messageStore)
Partner(d, doc) ==
  IF doc.senderId = currentUser[d] THEN doc.recipientId ELSE doc.senderId
Seen(d) == {seenNonces[d][k] : k \in 1..Len(seenNonces[d])}

\* Device d's user is a party of stored document i, and both parties have
\* published their public keys.
PartyOf(d, i) ==
  /\ currentUser[d] \in {messageStore[i].senderId, messageStore[i].recipientId}
  /\ Published(messageStore[i].senderId)
  /\ Published(messageStore[i].recipientId)

\* Document i carries the payload and the messageNonce encryptMessage returned.
Intact(i) ==
  /\ messageStore[i].encrypted = messageStore[origin[i].root].encrypted
  /\ messageStore[i].messageNonce = messageStore[origin[i].root].messageNonce

\* Document i carries the payload encryptMessage returned under another nonce.
Mislabelled(i) ==
  /\ messageStore[i].encrypted = messageStore[origin[i].root].encrypted
  /\ messageStore[i].messageNonce # messageStore[origin[i].root].messageNonce

\* What decryptMessage returns when device d calls it now on document i.
Decrypting(d, i, skipReplayCheck) ==
  decryptMessage(DeviceState(d), Partner(d, messageStore[i]),
                 messageStore[i].encrypted, messageStore[i].messageNonce,
                 skipReplayCheck).result

\* The conversation keys held in some device's cache.
CachedKeys ==
  {conversationKeys[d][u] : d \in Devices, u \in UserIds} \ {Null}

ReplayError == PlainError("Duplicate nonce - possible replay attack")
MismatchError == PlainError("Message nonce mismatch - possible tampering")
IntegrityError ==
  CryptoError("Decryption failed: integrity check failed", "INTEGRITY_FAILED")

\* C1: a validly encrypted message decrypts with skipReplayCheck=true every
\* time; with skipReplayCheck=false it decrypts when its nonce is not in the
\* seen-nonce set, and once the guard has accepted it (no clearNonces and no
\* eviction since) the next such call fails with the replay error.
C1_ReplayRejection ==
  \A d \in Devices, i \in Docs :
    (PartyOf(d, i) /\ Intact(i)) =>
      /\ Decrypting(d, i, TRUE).ok
      /\ messageStore[i].messageNonce \notin Seen(d) => Decrypting(d, i, FALSE).ok
      /\ messageStore[i].messageNonce \in validated[d] =>
           Decrypting(d, i, FALSE) = Attempt(Fail(ReplayError), TRUE)

\* A message was decrypted once with skipReplayCheck=false and would now be
\* rejected as a replay.
C1_Witness ==
  \E d \in Devices, i \in Docs :
    /\ PartyOf(d, i) /\ Intact(i)
    /\ messageStore[i].messageNonce \in validated[d]
    /\ ~Decrypting(d, i, FALSE).ok
    /\ Decrypting(d, i, TRUE).ok

\* C2 (as claimed): a delivered document whose messageNonce was already seen
\* in a document the view decrypted is rejected, so the view marks it failed.
C2_NewDeliveryGuarded ==
  \A d \in Devices :
    \A p, q \in 1..Len(view[d].messages) :
      LET first == view[d].messages[p]
          second == view[d].messages[q]
      IN  (/\ p < q
           /\ messageStore[first.id].messageNonce = messageStore[second.id].messageNonce
           /\ ~first.decryptionFailed)
          => second.decryptionFailed

\* C3: decryptMessage of what encryptMessage returned, under the same key,
\* yields the content object, without the _nonce field.
C3_RoundTrip ==
  (fnIn.fn = "roundTrip" /\ fnOut # Null) =>
    /\ fnOut.sent.ok
    /\ fnOut.received.ok
    /\ fnOut.received.value = fnIn.content
    /\ ~ObjHas(fnOut.received.value, "_nonce")

C3_Witness ==
  /\ fnIn.fn = "roundTrip" /\ fnOut # Null
  /\ fnIn.content # << >>
  /\ fnOut.received.ok
  /\ ObjHas(JsonParse(bytesToString(
       fromBase64(fnOut.sent.value.encrypted.ciphertext).sealed.data)), "_nonce")

\* C4: when the sender had initialized encryption and published its key at
\* the time of sending, and the recipient has too, a message the sender's
\* encryptMessage produced decrypts on the recipient's device to
\* the content sent, in the chat view and by decryptMessage (short of the
\* replay guard having seen it); the directory holds public keys only.
C4_EndToEnd ==
  /\ \A u \in UserIds :
       Published(u) => fromBase64(publicKeys[u].publicKey).format = "spki"
  /\ \A d \in Devices, i \in Docs :
       (/\ currentUser[d] = messageStore[i].recipientId
        /\ origin[i].senderReady
        /\ Ready(d))
       => /\ Decrypting(d, i, TRUE) = Attempt(Ok(origin[i].content), TRUE)
          /\ messageStore[i].messageNonce \notin Seen(d) =>
               Decrypting(d, i, FALSE) = Attempt(Ok(origin[i].content), TRUE)
          /\ \A p \in 1..Len(view[d].messages) :
               view[d].messages[p].id = i =>
                 /\ ~view[d].messages[p].decryptionFailed
                 /\ view[d].messages[p].text = ObjGet(origin[i].content, "text")

\* The recipient's chat view shows a message the other user sent.
C4_Witness ==
  \E d \in Devices : \E p \in 1..Len(view[d].messages) :
    LET shown == view[d].messages[p]
    IN  /\ shown.recipientId = currentUser[d]
        /\ Published(shown.senderId)
        /\ shown.text = Str("hi")

\* C5: the key A derives for B equals the key B derives for A.
C5_KeySymmetry ==
  (fnIn.fn = "deriveConversationKey" /\ fnOut # Null) =>
    /\ fnOut.atA.ok /\ fnOut.atB.ok
    /\ fnOut.atA.value = fnOut.atB.value

C5_Witness ==
  /\ fnIn.fn = "deriveConversationKey" /\ fnOut # Null
  /\ fnIn.keyA # fnIn.keyB
  /\ StrLess(fnIn.uidB, fnIn.uidA)
  /\ fnOut.atA.ok

\* C6: createConversationId does not depend on the order of its arguments,
\* and is the smaller id, '_', the larger id.
C6_ConversationIdSymmetric ==
  (fnIn.fn = "createConversationId" /\ fnOut # Null) =>
    /\ fnOut.forward = fnOut.backward
    /\ \E lo, hi \in {fnIn.uid1, fnIn.uid2} :
         /\ {lo, hi} = {fnIn.uid1, fnIn.uid2}
         /\ ~StrLess(hi, lo)
         /\ fnOut.forward = lo \o <<95>> \o hi

C6_Witness ==
  /\ fnIn.fn = "createConversationId" /\ fnOut # Null
  /\ StrLess(fnIn.uid2, fnIn.uid1)
  /\ Len(fnIn.uid1) # Len(fnIn.uid2)

\* C7: the same key pair and shared secret give different keys for different
\* conversation ids, and the key of one does not open a payload of the other.
C7_DomainSeparation ==
  (fnIn.fn = "domainSeparation" /\ fnOut # Null /\ fnIn.cid1 # fnIn.cid2) =>
    /\ fnOut.key1.ok /\ fnOut.key2.ok
    /\ fnOut.key1.value # fnOut.key2.value
    /\ ~fnOut.cross.ok

C7_Witness ==
  /\ fnIn.fn = "domainSeparation" /\ fnOut # Null
  /\ fnIn.cid1 # fnIn.cid2
  /\ fnOut.key1.value.ikm = fnOut.key2.value.ikm

\* C8: a payload that decrypts correctly but is labelled with another
\* messageNonce fails with the nonce-mismatch error and yields no content,
\* with and without skipReplayCheck.
C8_NonceMismatch ==
  \A d \in Devices, i \in Docs, skip \in BOOLEAN :
    (PartyOf(d, i) /\ Mislabelled(i)) =>
      Decrypting(d, i, skip) = Attempt(Fail(MismatchError), TRUE)

\* A mislabelled copy is in the store, of a message its reader has decrypted.
C8_Witness ==
  \E d \in Devices, i \in Docs :
    /\ PartyOf(d, i) /\ Mislabelled(i)
    /\ messageStore[origin[i].root].messageNonce \in Seen(d)
    /\ messageStore[i].messageNonce \notin Seen(d)

\* C9: a payload encrypt produced, with bits of its ciphertext flipped, makes
\* decrypt fail with INTEGRITY_FAILED under every key, and decryptMessage
\* yields no content for it.
C9_TamperDetection ==
  \A i \in Docs :
    (/\ fromBase64(messageStore[i].encrypted.ciphertext).flipped # {}
     /\ messageStore[i].encrypted.version = CRYPTO_CONFIG.VERSION)
    => /\ \A key \in CachedKeys :
            decrypt(messageStore[i].encrypted, key) = Attempt(Fail(IntegrityError), TRUE)
       /\ \A d \in Devices, skip \in BOOLEAN :
            PartyOf(d, i) => Decrypting(d, i, skip) = Attempt(Fail(IntegrityError), TRUE)

\* A tampered payload is in the store and a device holds the key it was
\* encrypted with.
C9_Witness ==
  \E i \in Docs, key \in CachedKeys :
    /\ fromBase64(messageStore[i].encrypted.ciphertext).flipped # {}
    /\ messageStore[i].encrypted.version = CRYPTO_CONFIG.VERSION
    /\ fromBase64(messageStore[i].encrypted.ciphertext).sealed.key = key

\* C10 (as claimed): decrypt of a payload with another version fails with an
\* error of the kind UnsupportedVersion, before AES-GCM decryption is tried.
C10_UnsupportedVersion ==
  \A i \in Docs, key \in CachedKeys :
    messageStore[i].encrypted.version # CRYPTO_CONFIG.VERSION =>
      LET r == decrypt(messageStore[i].encrypted, key)
      IN  /\ ~r.ok
          /\ ~r.gcm
          /\ r.error.code = "UNSUPPORTED_VERSION"

InSeq(x, seq) == \E k \in 1..Len(seq) : seq[k] = x

\* C11: validateNonce(n) returns false and leaves the seen-nonce set as it
\* is when n is already in it; otherwise it returns true and n is in the set
\* afterwards.
C11_ValidateNonceContract ==
  (fnOut # Null /\ fnOut.op = "validateNonce") =>
    IF InSeq(fnOut.nonce, fnOut.before)
    THEN ~fnOut.valid /\ fnOut.after = fnOut.before
    ELSE fnOut.valid /\ InSeq(fnOut.nonce, fnOut.after)

\* validateNonce accepted a new nonce with the set at capacity.
C11_Witness ==
  /\ fnOut # Null /\ fnOut.op = "validateNonce"
  /\ Len(fnOut.before) = MAX_NONCES
  /\ ~InSeq(fnOut.nonce, fnOut.before)
  /\ fnOut.valid

\* C12: the seen-nonce set never holds more than MAX_NONCES nonces, whatever
\* validateNonce and clearNonces calls were made.
C12_SeenNoncesBounded ==
  \A d \in Devices :
    /\ Len(seenNonces[d]) <= MAX_NONCES
    /\ \A r \in NonceIds :
         Len(validateNonce(seenNonces[d], generateNonce(r)).seen) <= MAX_NONCES

\* validateNonce evicted, and the set is full again.
C12_Witness ==
  /\ fnOut # Null /\ fnOut.op = "validateNonce" /\ fnOut.evicted
  /\ Len(seenNonces[fnOut.device]) = MAX_NONCES

\* C13: clearNonces empties the seen-nonce set and signOut calls it: the step
\* that signs a user out leaves the set empty, so that validateNonce accepts
\* every nonce afterwards.
C13_SignOutClearsNonces ==
  [][/\ \A d \in Devices :
          (currentUser[d] # NoUser /\ currentUser'[d] = NoUser) =>
            /\ seenNonces'[d] = << >>
            /\ \A r \in NonceIds :
                 validateNonce(seenNonces'[d], generateNonce(r)).valid
     /\ (fnOut' # fnOut /\ fnOut'.op = "clearNonces") => fnOut'.after = << >>
    ]_vars

\* A device whose user signed out after validateNonce had accepted a nonce
\* there: the same nonce would be accepted again.
C13_Witness ==
  \E d \in Devices :
    /\ currentUser[d] = NoUser
    /\ seenNonces[d] = << >>
    /\ fnOut # Null /\ fnOut.op = "validateNonce" /\ fnOut.device = d
    /\ fnOut.valid
    /\ validateNonce(seenNonces[d], fnOut.nonce).valid

\* The seen-nonce set a decryptMessage call on device d for document i leaves.
SeenAfterDecrypting(d, i, skipReplayCheck) ==
  decryptMessage(DeviceState(d), Partner(d, messageStore[i]),
                 messageStore[i].encrypted, messageStore[i].messageNonce,
                 skipReplayCheck).ds.seenNonces

\* C14: a decryptMessage call that fails, or that runs with
\* skipReplayCheck=true, leaves the seen-nonce set as it is; a successful call
\* with skipReplayCheck=false adds the message's nonce and nothing else.
C14_SeenNoncesFrame ==
  \A d \in Devices, i \in Docs, skip \in BOOLEAN :
    LET after == SeenAfterDecrypting(d, i, skip)
    IN  IF Decrypting(d, i, skip).ok /\ ~skip
        THEN /\ ~InSeq(messageStore[i].messageNonce, seenNonces[d])
             /\ {after[k] : k \in 1..Len(after)} \ Seen(d)
                  = {messageStore[i].messageNonce}
        ELSE after = seenNonces[d]

\* On one device: a document that fails to decrypt, one that would be
\* rejected as a replay, and one that would be accepted and recorded.
C14_Witness ==
  \E d \in Devices : \E i, j, k \in Docs :
    /\ ~Decrypting(d, i, TRUE).ok
    /\ Decrypting(d, j, TRUE).ok /\ ~Decrypting(d, j, FALSE).ok
    /\ Decrypting(d, k, FALSE).ok
    /\ SeenAfterDecrypting(d, k, FALSE) # seenNonces[d]

\* C15 (as claimed): the conversation-key cache has no entries once signOut
\* has completed, so a getConversationKey call after a later sign-in returns
\* only keys derived for the user then signed in.
C15_KeyCacheClearedOnSignOut ==
  \A d \in Devices :
    /\ currentUser[d] = NoUser => conversationKeys[d] = EmptyMap
    /\ \A u \in UserIds :
         LET call == getConversationKey(DeviceState(d), u)
         IN  call.result.ok =>
               call.result.value.info =
                 stringToBytes(<<"conversation:",
                                 createConversationId(currentUser[d], u)>>)

\* C16: with encryption already initialized, initializeEncryption generates
\* no key pair, writes nothing to the local key store or the directory, and
\* leaves the in-memory key pair and the flags as they are.
C16_InitializeIdempotent ==
  \A d \in Devices :
    isInitialized[d] => initializeEncryption(d) = InitializationState(d)

\* Encryption is initialized on a device whose present user has no identity
\* record: an initialization that ran would generate and publish one.
C16_Witness ==
  \E d \in Devices :
    /\ isInitialized[d]
    /\ currentUser[d] # NoUser
    /\ identityStore[d][currentUser[d]] = Null
    /\ ~Published(currentUser[d])

\* C17 (as claimed): whenever initializeEncryption returns without throwing
\* for the signed-in user u, the local key store holds an identity record for
\* u and the directory holds a record for u with the public half of the
\* in-memory key pair; the pair comes from the local record when there is
\* one, and is generated only when there is none.
C17_InitializationEstablishesIdentity ==
  \A d \in Devices :
    currentUser[d] # NoUser =>
      LET u == currentUser[d]
          after == initializeEncryption(d)
      IN  after.isInitialized =>
            /\ after.identityStore[u] # Null
            /\ after.publicKeys[u] # Null
            /\ after.publicKeys[u].publicKey = after.myPublicKeyBase64
            /\ after.myPublicKeyBase64 = exportKeyPair(
                 [privateKey |-> after.myPrivateKey,
                  publicKey |-> after.myPublicKey]).publicKey
            /\ identityStore[d][u] # Null =>
                 /\ after.identityStore = identityStore[d]
                 /\ after.myPublicKeyBase64 = identityStore[d][u].publicKey
                 /\ after.rng = rng
            /\ after.rng # rng => identityStore[d][u] = Null

\* C18: an identity record in the local key store is never overwritten or
\* deleted, whatever initializeEncryption, signOut, page reloads, sending and
\* receiving do.
C18_IdentityNeverRotated ==
  [][\A d \in Devices, u \in UserIds :
       identityStore[d][u] # Null => identityStore'[d][u] = identityStore[d][u]
    ]_vars

\* A device that kept one user's identity record through that user's
\* sign-out, a page reload and the initialization of the next user, and has
\* sent a message.
C18_Witness ==
  \E d \in Devices, u \in UserIds :
    /\ Ready(d)
    /\ u # currentUser[d]
    /\ identityStore[d][u] # Null
    /\ \E i \in Docs : messageStore[i].senderId = currentUser[d]

\* The private keys generated so far, as CryptoKey and as pkcs8 export.
PrivateMaterial ==
  {PrivateKey(k) : k \in 1..rng.key}
    \cup {toBase64([format |-> "pkcs8", id |-> k]) : k \in 1..rng.key}

\* The object encrypted in stored document i.
Plaintext(i) ==
  JsonParse(bytesToString(
    fromBase64(messageStore[i].encrypted.ciphertext).sealed.data))

C20_RelaySeesCiphertextOnly ==
  (fnIn.fn = "sendMessage" /\ fnOut # Null) =>
    /\ DOMAIN fnOut.doc1 =
         {"senderId", "recipientId", "senderUsername", "conversationId",
          "createdAt", "encrypted", "messageNonce"}
    /\ DOMAIN fnOut.doc1.encrypted = {"ciphertext", "iv", "version"}
    /\ DOMAIN fromBase64(fnOut.doc1.encrypted.ciphertext) = {"sealed", "flipped"}
    /\ fnIn.text1 \notin {fnOut.doc1.senderUsername, fnOut.doc1.messageNonce,
                          fnOut.doc1.encrypted.iv, fnOut.doc1.encrypted.ciphertext}
    /\ fnOut.doc2 =
         [fnOut.doc1 EXCEPT !.encrypted.ciphertext = fnOut.doc2.encrypted.ciphertext]

\* Two sends with different texts wrote different documents.
C20_Witness ==
  /\ fnIn.fn = "sendMessage" /\ fnOut # Null
  /\ fnIn.text1 # fnIn.text2
  /\ fnOut.doc1 # fnOut.doc2

\* ------------------------------------------------------------ key lookup

\* What getRecipientPublicKey(p) would do on device d in the current state.
LookupPublicKey(d, p) == getRecipientPublicKey(DeviceState(d), p)

\* The error of a lookup for a user with no publicKeys document.
PublicKeyNotFound(p) == PlainError("Public key not found for user: " \o TextOf(p))

\* C21: getRecipientPublicKey(p) returns a cached key without reading the
\* directory; on a cache miss it reads exactly one directory record, that of
\* p; if p has never published a key it fails with the public-key-not-found
\* error and leaves the state unchanged; on success the cache holds the
\* returned key, which is the one p published.
C21_RecipientPublicKeyLookup ==
  \A d \in Devices : \A p \in UserIds :
    LET ds == DeviceState(d)
        r == LookupPublicKey(d, p)
    IN  /\ ds.publicKeyCache[p] # Null =>
             /\ r.result = Ok(ds.publicKeyCache[p])
             /\ r.fetched = << >>
             /\ r.ds = ds
        /\ ds.publicKeyCache[p] = Null => r.fetched = <<p>>
        /\ publicKeys[p] = Null =>
             /\ r.result = Fail(PublicKeyNotFound(p))
             /\ r.ds = ds
        /\ r.result.ok =>
             /\ r.ds.publicKeyCache[p] = r.result.value
             /\ Ok(r.result.value) = importPublicKey(publicKeys[p].publicKey)
             /\ \A q \in UserIds \ {p} : r.ds.publicKeyCache[q] = ds.publicKeyCache[q]

\* One device holds a cached key, misses on a published user and misses on a
\* user who never published.
C21_Witness ==
  \E d \in Devices : \E p, q, u \in UserIds :
    /\ publicKeyCache[d][p] # Null
    /\ publicKeyCache[d][q] = Null /\ publicKeys[q] # Null
    /\ LookupPublicKey(d, q).result.ok
    /\ publicKeys[u] = Null /\ ~LookupPublicKey(d, u).result.ok

\* What getConversationKey(p) would do on device d in the current state.
LookupConversationKey(d, p) == getConversationKey(DeviceState(d), p)

\* C22: once getConversationKey(p) has succeeded, a later getConversationKey(p)
\* on the same state, with a call for any peer q in between, returns the same
\* key, reads no directory record, derives nothing and changes no state.
C22_ConversationKeyCacheHit ==
  \A d \in Devices : \A p, q \in UserIds :
    LET first == LookupConversationKey(d, p)
        between == getConversationKey(first.ds, q)
        second == getConversationKey(between.ds, p)
    IN  first.result.ok =>
          /\ second.result = first.result
          /\ second.fetched = << >>
          /\ second.derived = 0
          /\ second.ds = between.ds
          /\ first.ds.conversationKeys[p] = first.result.value

\* A first call that fetches and derives, on a device that already serves
\* another peer from its cache.
C22_Witness ==
  \E d \in Devices : \E p, q \in UserIds :
    /\ LookupConversationKey(d, p).result.ok
    /\ LookupConversationKey(d, p).derived = 1
    /\ LookupConversationKey(d, p).fetched = <<p>>
    /\ conversationKeys[d][q] # Null
    /\ LookupConversationKey(d, q).result = Ok(conversationKeys[d][q])

\* C23 (as stated): with no signed-in user, or with no identity private key
\* loaded, getConversationKey fails with the not-authenticated error, reads no
\* directory record and leaves both caches unchanged.
C23_NotAuthenticatedBeforeInit ==
  \A d \in Devices : \A p \in UserIds :
    LET r == LookupConversationKey(d, p)
    IN  (currentUser[d] = NoUser \/ myPrivateKey[d] = Null) =>
          /\ r.result = Fail(PlainError("Not authenticated"))
          /\ r.fetched = << >>
          /\ r.ds = DeviceState(d)

\* C23 (amended): with no signed-in user getConversationKey fails with the
\* not-authenticated error; with a signed-in user and no identity private key
\* loaded it fails with the encryption-not-initialized error; in both cases it
\* reads no directory record, derives nothing and leaves both caches unchanged.
C23_GuardsBeforeLookup ==
  \A d \in Devices : \A p \in UserIds :
    LET r == LookupConversationKey(d, p)
    IN  /\ currentUser[d] = NoUser =>
             r.result = Fail(PlainError("Not authenticated"))
        /\ (currentUser[d] # NoUser /\ myPrivateKey[d] = Null) =>
             r.result = Fail(PlainError("Encryption not initialized"))
        /\ (currentUser[d] = NoUser \/ myPrivateKey[d] = Null) =>
             /\ r.fetched = << >>
             /\ r.derived = 0
             /\ r.ds = DeviceState(d)

\* A signed-in device with no identity key calls for a published peer, and a
\* signed-out device holding a conversation key for a peer calls for it.
C23_Witness ==
  /\ \E d \in Devices : \E p \in UserIds :
       /\ currentUser[d] # NoUser /\ myPrivateKey[d] = Null
       /\ publicKeys[p] # Null
       /\ ~LookupConversationKey(d, p).result.ok
  /\ \E d \in Devices : \E p \in UserIds :
       /\ currentUser[d] = NoUser /\ conversationKeys[d][p] # Null
       /\ ~LookupConversationKey(d, p).result.ok

\* ------------------------------------------------------- decryption errors

\* C24 (as claimed): decrypt of an untampered payload of the supported version
\* under a key other than the one it was encrypted with fails with an error
\* of another kind than INTEGRITY_FAILED.
C24_WrongKeyDistinguished ==
  \A i \in Docs : \A key \in CachedKeys :
    LET bytes == fromBase64(messageStore[i].encrypted.ciphertext)
        r == decrypt(messageStore[i].encrypted, key)
    IN  (/\ bytes.flipped = {}
         /\ messageStore[i].encrypted.version = CRYPTO_CONFIG.VERSION
         /\ bytes.sealed.key # key)
        => /\ ~r.ok
           /\ r.error.code # "INTEGRITY_FAILED"

\* ---------------------------------------------------------- snapshot handler

\* C25: every run of the snapshot handler leaves a message list with exactly
\* one entry per document of the snapshot, in snapshot order.  A document
\* decrypted in this run whose decryption fails is entered marked
\* decryptionFailed and without text; one whose decryption succeeds is entered
\* unmarked with its decrypted text; a document decrypted in an earlier run is
\* entered as cached.
C25_SnapshotKeepsEveryDocument ==
  [][\A d \in Devices :
       OnSnapshot(d) =>
         LET docs == QueryFrom(view[d].conversationId, 1)
             messages == view'[d].messages
         IN  /\ Len(messages) = Len(docs)
             /\ \A k \in 1..Len(docs) :
                  LET content == decryptMessageSafe(DeviceState(d),
                                   messageStore[docs[k]], TRUE).result
                  IN  /\ messages[k].id = docs[k]
                      /\ IF CacheHas(view[d].decryptedCache, docs[k])
                         THEN messages[k] = CacheGet(view[d].decryptedCache, docs[k])
                         ELSE /\ messages[k].decryptionFailed = ~content.ok
                              /\ content.ok =>
                                   messages[k].text = ObjGet(content.value, "text")
                              /\ ~content.ok => messages[k].text = Undefined]_vars

\* A view shows an entry marked decryptionFailed followed by a decrypted one,
\* and shows every document of its conversation.
C25_Witness ==
  \E d \in Devices : \E j, k \in 1..Len(view[d].messages) :
    /\ j < k
    /\ view[d].messages[j].decryptionFailed
    /\ ~view[d].messages[k].decryptionFailed
    /\ view[d].messages[k].text \in Texts
    /\ Len(view[d].messages) = Len(QueryFrom(view[d].conversationId, 1))

\* ------------------------------------------------- concurrent key lookups

\* getConversationKey is an async function: between its awaits other calls
\* run.  The calls in flight and finished are kept in fnOut, each with its
\* arguments, its local variables and the await it is suspended at:
\*   "getDoc"  await getDoc(doc(db, 'publicKeys', recipientId))
\*   "import"  await importPublicKey(data.publicKey)
\*   "derive"  await getRecipientPublicKey(recipientId), resolved
\*   "store"   await deriveConversationKey(...)
\*   "done"    returned or thrown
MaxCalls == 3

Calls == IF fnOut = Null THEN << >> ELSE fnOut.calls

SetCalls(calls) == fnOut' = [op |-> "getConversationKey", calls |-> calls]

Call(d, p, pc) ==
  [device |-> d, peer |-> p, user |-> currentUser[d], pc |-> pc,
   snapshot |-> Null, publicKey |-> Null, key |-> Null, result |-> Null,
   fetched |-> 0, derived |-> 0]

Return(call, result) == [call EXCEPT !.pc = "done", !.result = result]

\* getConversationKey, and getRecipientPublicKey within it, up to the first
\* await that suspends.
StartCall(d, p) ==
  /\ Len(Calls) < MaxCalls
  /\ SetCalls(Append(Calls,
       IF currentUser[d] = NoUser
       THEN Return(Call(d, p, "done"), Fail(PlainError("Not authenticated")))
       ELSE IF myPrivateKey[d] = Null
       THEN Return(Call(d, p, "done"), Fail(PlainError("Encryption not initialized")))
       ELSE IF conversationKeys[d][p] # Null
       THEN Return(Call(d, p, "done"), Ok(conversationKeys[d][p]))
       ELSE IF publicKeyCache[d][p] # Null
       THEN [Call(d, p, "derive") EXCEPT !.publicKey = publicKeyCache[d][p]]
       ELSE Call(d, p, "getDoc")))
  /\ UNCHANGED <<currentUser, issuedUids, encryptionVars, conversationKeys,
                 publicKeyCache, seenNonces, identityStore, publicKeys,
                 messageStore, view, rng, observationVars, fnIn>>

\* getRecipientPublicKey: getDoc resolves; a missing document throws.
GetDocStep(k) ==
  LET call == Calls[k]
      snapshot == publicKeys[call.peer]
  IN  /\ call.pc = "getDoc"
      /\ SetCalls([Calls EXCEPT ![k] =
           IF snapshot = Null
           THEN Return([call EXCEPT !.fetched = 1], Fail(PublicKeyNotFound(call.peer)))
           ELSE [call EXCEPT !.pc = "import", !.snapshot = snapshot, !.fetched = 1]])
      /\ UNCHANGED <<currentUser, issuedUids, encryptionVars, conversationKeys,
                     publicKeyCache, seenNonces, identityStore, publicKeys,
                     messageStore, view, rng, observationVars, fnIn>>

\* getRecipientPublicKey: importPublicKey resolves, publicKeyCache.set, return.
ImportStep(k) ==
  LET call == Calls[k]
      publicKey == importPublicKey(call.snapshot.publicKey)
  IN  /\ call.pc = "import"
      /\ IF publicKey.ok
         THEN /\ publicKeyCache' = [publicKeyCache EXCEPT
                                      ![call.device][call.peer] = publicKey.value]
              /\ SetCalls([Calls EXCEPT ![k] =
                   [call EXCEPT !.pc = "derive", !.publicKey = publicKey.value]])
         ELSE /\ SetCalls([Calls EXCEPT ![k] = Return(call, publicKey)])
              /\ UNCHANGED publicKeyCache
      /\ UNCHANGED <<currentUser, issuedUids, encryptionVars, conversationKeys,
                     seenNonces, identityStore, publicKeys, messageStore, view,
                     rng, observationVars, fnIn>>

\* A plausible slip: the conversation id built from the ids as given.
DeriveInFlight_unsortedId(call) ==
  deriveConversationKey(myPrivateKey[call.device], call.publicKey,
                        createConversationId_unsorted(call.user, call.peer))

\* getConversationKey: the deriveConversationKey call of a call in flight.
DeriveInFlight(call) ==
  deriveConversationKey(myPrivateKey[call.device], call.publicKey,
                        createConversationId(call.user, call.peer))

\* getConversationKey resumes with the public key and starts the derivation.
DeriveStep(k) ==
  LET call == Calls[k]
      key == DeriveInFlight(call)
  IN  /\ call.pc = "derive"
      /\ SetCalls([Calls EXCEPT ![k] =
           IF key.ok
           THEN [call EXCEPT !.pc = "store", !.key = key.value, !.derived = 1]
           ELSE Return([call EXCEPT !.derived = 1], key)])
      /\ UNCHANGED <<currentUser, issuedUids, encryptionVars, conversationKeys,
                     publicKeyCache, seenNonces, identityStore, publicKeys,
                     messageStore, view, rng, observationVars, fnIn>>

\* getConversationKey resumes with the key: conversationKeys.set, return.
StoreStep(k) ==
  LET call == Calls[k]
  IN  /\ call.pc = "store"
      /\ conversationKeys' = [conversationKeys EXCEPT
                                ![call.device][call.peer] = call.key]
      /\ SetCalls([Calls EXCEPT ![k] = Return(call, Ok(call.key))])
      /\ UNCHANGED <<currentUser, issuedUids, encryptionVars, publicKeyCache,
                     seenNonces, identityStore, publicKeys, messageStore, view,
                     rng, observationVars, fnIn>>

NextDerive ==
  \/ \E d \in Devices, p \in UserIds : StartCall(d, p)
  \/ \E k \in 1..Len(Calls) : GetDocStep(k)
  \/ \E k \in 1..Len(Calls) : ImportStep(k)
  \/ \E k \in 1..Len(Calls) : DeriveStep(k)
  \/ \E k \in 1..Len(Calls) : StoreStep(k)

\* Calls of getConversationKey interleaved at their awaits, in the established
\* conversation of InitCodec with cold caches.
SpecDerive == InitCodec /\ [][NextDerive]_vars

\* What one getConversationKey(p) on device d returns when it runs alone on
\* cold caches.
SingleCall(d, p) ==
  getConversationKey([DeviceState(d) EXCEPT !.conversationKeys = EmptyMap,
                                            !.publicKeyCache = EmptyMap], p).result

\* C26: however concurrent getConversationKey calls interleave, every call
\* that has returned or thrown did so with what a single call would (the same
\* key, or the same error), every conversation-key cache entry holds the key a
\* single call would derive, and once a call has returned a key the cache
\* entry for its peer holds that key.
C26_RedundantDerivationsHarmless ==
  /\ \A k \in 1..Len(Calls) :
       Calls[k].pc = "done" =>
         /\ Calls[k].result = SingleCall(Calls[k].device, Calls[k].peer)
         /\ Calls[k].result.ok =>
              conversationKeys[Calls[k].device][Calls[k].peer] = Calls[k].result.value
  /\ \A d \in Devices : \A p \in UserIds :
       conversationKeys[d][p] # Null => Ok(conversationKeys[d][p]) = SingleCall(d, p)

\* Two calls for the same peer on one device have both fetched, both derived
\* and both returned.
C26_Witness ==
  \E j, k \in 1..Len(Calls) :
    /\ j # k
    /\ Calls[j].device = Calls[k].device /\ Calls[j].peer = Calls[k].peer
    /\ Calls[j].pc = "done" /\ Calls[k].pc = "done"
    /\ Calls[j].result.ok /\ Calls[k].result.ok
    /\ Calls[j].derived = 1 /\ Calls[k].derived = 1
    /\ Calls[j].fetched = 1 /\ Calls[k].fetched = 1

\* ----------------------------------------------------------- IV freshness

\* The documents sendMessage wrote, as opposed to the relay's copies.
Sent == {i \in Docs : origin[i].root = i}

SealedOf(i) == fromBase64(messageStore[i].encrypted.ciphertext).sealed

\* C27: two payloads produced by encrypt under the same key carry different
\* IVs and different ciphertexts; and encrypting the plaintext of a payload
\* again now, under the same key, yields another IV and another ciphertext.
\* (randomBytes is taken to return values it has not returned before.)
C27_IvFreshness ==
  /\ \A i, j \in Sent :
       (i # j /\ SealedOf(i).key = SealedOf(j).key) =>
         /\ messageStore[i].encrypted.iv # messageStore[j].encrypted.iv
         /\ messageStore[i].encrypted.ciphertext # messageStore[j].encrypted.ciphertext
  /\ \A i \in Sent :
       LET again == encrypt(bytesToString(SealedOf(i).data), SealedOf(i).key, rng.iv)
       IN  /\ again.ok
           /\ bytesToString(fromBase64(again.value.ciphertext).sealed.data)
                = bytesToString(SealedOf(i).data)
           /\ again.value.iv # messageStore[i].encrypted.iv
           /\ again.value.ciphertext # messageStore[i].encrypted.ciphertext

\* Two messages with the same text were sent under one conversation key.
C27_Witness ==
  \E i, j \in Sent :
    /\ i # j
    /\ SealedOf(i).key = SealedOf(j).key
    /\ origin[i].content = origin[j].content
    /\ messageStore[i].encrypted.ciphertext # messageStore[j].encrypted.ciphertext

\* ------------------------------------------------------- order of checks

Tampered(i) == fromBase64(messageStore[i].encrypted.ciphertext).flipped # {}

\* C28: decryptMessage reports the earliest failing check of: version, then
\* AES-GCM authentication, then embedded nonce against messageNonce, then the
\* replay guard.  A payload of another version fails before AES-GCM is tried;
\* a tampered payload fails with the integrity error even when its nonce was
\* seen; a mislabelled payload fails with the nonce-mismatch error even when
\* the nonce it is labelled with was seen; only an intact payload reaches the
\* replay guard, and a failing call leaves the seen nonces as they were.
C28_CheckOrder ==
  \A d \in Devices : \A i \in Docs : \A skip \in BOOLEAN :
    PartyOf(d, i) =>
      LET r == Decrypting(d, i, skip)
          seen == messageStore[i].messageNonce \in Seen(d)
      IN  /\ IF messageStore[i].encrypted.version # CRYPTO_CONFIG.VERSION
             THEN ~r.ok /\ ~r.gcm /\ r.error.code = "DECRYPT_FAILED"
             ELSE IF Tampered(i)
             THEN r = Attempt(Fail(IntegrityError), TRUE)
             ELSE IF Mislabelled(i)
             THEN r = Attempt(Fail(MismatchError), TRUE)
             ELSE IF ~skip /\ seen
             THEN r = Attempt(Fail(ReplayError), TRUE)
             ELSE r.ok
          /\ ~r.ok => SeenAfterDecrypting(d, i, skip) = seenNonces[d]

\* A payload labelled with another message's nonce, which its reader has
\* already seen, is in the store.
C28_Witness ==
  \E d \in Devices : \E i \in Docs :
    /\ PartyOf(d, i) /\ Mislabelled(i)
    /\ messageStore[i].encrypted.version = CRYPTO_CONFIG.VERSION
    /\ messageStore[i].messageNonce \in Seen(d)
    /\ Decrypting(d, i, FALSE) = Attempt(Fail(MismatchError), TRUE)

\* ---------------------------------------------------------------- eviction

\* C29: when validateNonce is called with a new nonce and the seen-nonce set
\* holds MAX_NONCES entries, the entries it removes are exactly the
\* EvictCount earliest inserted, where EvictCount is 20% of MAX_NONCES rounded
\* up (2,000 for the 10,000 of the code); the later entries remain in their
\* order and the new nonce is recorded last.  Below capacity, and for a nonce
\* already in the set, no entry is removed.
C29_FifoEviction ==
  /\ EvictCount * 5 >= MAX_NONCES /\ (EvictCount - 1) * 5 < MAX_NONCES
  /\ (10000 + 4) \div 5 = 2000
  /\ (fnOut # Null /\ fnOut.op = "validateNonce") =>
       LET before == fnOut.before
           after == fnOut.after
       IN  IF ~InSeq(fnOut.nonce, before) /\ Len(before) >= MAX_NONCES
           THEN /\ fnOut.evicted
                /\ \A k \in 1..Len(before) :
                     InSeq(before[k], after) <=> k > EvictCount
                /\ Len(after) = Len(before) - EvictCount + 1
                /\ \A k \in 1..(Len(after) - 1) : after[k] = before[k + EvictCount]
                /\ after[Len(after)] = fnOut.nonce
           ELSE /\ ~fnOut.evicted
                /\ \A k \in 1..Len(before) : after[k] = before[k]

\* validateNonce evicted from a full set: the earliest entry is gone and the
\* latest is kept.
C29_Witness ==
  /\ fnOut # Null /\ fnOut.op = "validateNonce" /\ fnOut.evicted
  /\ Len(fnOut.before) = MAX_NONCES
  /\ ~InSeq(fnOut.before[1], fnOut.after)
  /\ InSeq(fnOut.before[MAX_NONCES], fnOut.after)
  /\ InSeq(fnOut.nonce, fnOut.after)

\* ------------------------------------------------- failing initialization

\* The awaited steps of initializeEncryption that can reject, with the
\* message of the error each rejects with (<e> is the underlying error's text;
\* Firestore rejects with a FirebaseError).
FailingSteps ==
  {"getIdentityKeys", "importPrivateKey", "importPublicKey", "generateKeyPair",
   "saveIdentityKeys", "publishPublicKey", "ensurePublicKeyPublished"}

StepError(step) ==
  CASE step = "getIdentityKeys" -> PlainError("Failed to get identity keys")
    [] step = "importPrivateKey" ->
         CryptoError("Private key import failed: <e>", "KEY_IMPORT_FAILED")
    [] step = "importPublicKey" ->
         CryptoError("Public key import failed: <e>", "KEY_IMPORT_FAILED")
    [] step = "generateKeyPair" ->
         CryptoError("Key generation failed: <e>", "KEY_GEN_FAILED")
    [] step = "saveIdentityKeys" -> PlainError("Failed to save identity keys")
    [] OTHER -> [type |-> "FirebaseError", code |-> "unavailable", message |-> "<e>"]

\* Key pairs generateKeyPair may produce before the failing runs stop.
MaxKeys == 4

\* Whether the call on device d reaches the step: past the guards, and on the
\* branch (stored keys or new keys) the step belongs to.
Reaches(d, step) ==
  /\ currentUser[d] # NoUser
  /\ ~isInitialized[d] /\ ~isInitializing[d]
  /\ step \in {"importPrivateKey", "importPublicKey"} =>
       identityStore[d][currentUser[d]] # Null
  /\ step \in {"generateKeyPair", "saveIdentityKeys", "publishPublicKey"} =>
       identityStore[d][currentUser[d]] = Null

\* A plausible slip: no finally block, isInitializing left set by a failure.
initializeEncryptionFailing_noFinally(d, step) ==
  [state |-> [InitializationState(d) EXCEPT
                !.isInitializing = TRUE, !.initError = Str(StepError(step).message)],
   thrown |-> StepError(step)]

\* useEncryption: initializeEncryption when the given step rejects: the state
\* the try block reached, then the catch block (initError = e.message, throw e)
\* and the finally block (isInitializing = false).
initializeEncryptionFailing(d, step) ==
  LET user == currentUser[d]
      stored == identityStore[d][user]
      keyPair == generateKeyPair(rng.key)
      exported == exportKeyPair(keyPair)
      start == InitializationState(d)
      imported == [start EXCEPT
                     !.myPrivateKey = importPrivateKey(stored.privateKey).value,
                     !.myPublicKey = importPublicKey(stored.publicKey).value,
                     !.myPublicKeyBase64 = stored.publicKey]
      generated == [start EXCEPT
                      !.myPrivateKey = keyPair.privateKey,
                      !.myPublicKey = keyPair.publicKey,
                      !.myPublicKeyBase64 = exported.publicKey,
                      !.rng = [rng EXCEPT !.key = @ + 1]]
      saved == [generated EXCEPT
                  !.identityStore[user] =
                     [userId |-> user, publicKey |-> exported.publicKey,
                      privateKey |-> exported.privateKey]]
      published == [saved EXCEPT
                      !.publicKeys = publishPublicKey(publicKeys, user, exported.publicKey)]
      reached ==
        CASE step \in {"getIdentityKeys", "importPrivateKey", "generateKeyPair"} -> start
          [] step = "importPublicKey" ->
               [start EXCEPT !.myPrivateKey = importPrivateKey(stored.privateKey).value]
          [] step = "saveIdentityKeys" -> generated
          [] step = "publishPublicKey" -> saved
          [] OTHER -> IF stored # Null THEN imported ELSE published
  IN  [state |-> [reached EXCEPT !.isInitializing = FALSE,
                                 !.initError = Str(StepError(step).message)],
       thrown |-> StepError(step)]

\* EncryptedApp: watch(isAuthenticated) / handleAuthenticated calling
\* initializeEncryption, which rejects at the given step; the caller logs the
\* error.  The call made and the error it threw are kept in fnOut.
InitializeEncryptionFails(d, step) ==
  /\ Reaches(d, step)
  /\ rng.key < MaxKeys
  /\ ApplyInitialization(d, initializeEncryptionFailing(d, step).state)
  /\ fnOut' = [op |-> "initializeEncryption", device |-> d, step |-> step,
               thrown |-> initializeEncryptionFailing(d, step).thrown]
  /\ UNCHANGED <<currentUser, issuedUids, conversationKeys, publicKeyCache,
                 seenNonces, messageStore, view, observationVars, fnIn>>

\* Sign-in, initialization that succeeds or fails at any step, and reload.
NextInit ==
  \/ \E d \in Devices : SignIn(d)
  \/ \E d \in Devices : InitializeEncryption(d)
  \/ \E d \in Devices : \E step \in FailingSteps : InitializeEncryptionFails(d, step)
  \/ \E d \in Devices : Reload(d)

SpecInit == Init /\ [][NextInit]_vars

\* C30: a call of initializeEncryption that fails at any of its steps throws
\* the error to its caller and leaves isInitializing false, isInitialized
\* false and initError set to the error's message; a call made after it goes
\* through initialization again and, its steps succeeding, ends initialized
\* with the error cleared.
C30_FailedInitializationRetried ==
  [][\A d \in Devices : \A step \in FailingSteps :
       InitializeEncryptionFails(d, step) =>
         /\ fnOut'.thrown = StepError(step)
         /\ ~isInitializing'[d]
         /\ ~isInitialized'[d]
         /\ initError'[d] = Str(StepError(step).message)
         /\ initializeEncryption(d)' # InitializationState(d)'
         /\ (initializeEncryption(d).isInitialized)'
         /\ (initializeEncryption(d).initError)' = Null
         /\ (initializeEncryption(d).myPrivateKey)' # Null
    ]_vars

\* An initialization failed after the new keys were put in memory, and the
\* device is not initialized.
C30_Witness ==
  \E d \in Devices :
    /\ fnOut # Null /\ fnOut.op = "initializeEncryption" /\ fnOut.device = d
    /\ fnOut.step = "saveIdentityKeys"
    /\ initError[d] = Str("Failed to save identity keys")
    /\ ~isInitialized[d] /\ ~isInitializing[d]
    /\ myPrivateKey[d] # Null
    /\ identityStore[d][currentUser[d]] = Null

\* ------------------------------------------- concurrent snapshot handlers

\* The onSnapshot callback is an async function: the listener calls it for
\* each snapshot without awaiting the one before, so a handler suspended at
\* `await decryptMessageSafe(data, true)` runs interleaved with later ones.
\* The handlers started are kept in fnOut, each with its snapshot (docs), the
\* index of the document it awaits (pos), its local decryptedMessages
\* (messages) and the ids it has called decryptMessageSafe for (decrypted);
\* delivered is the last snapshot the listener passed to each view.
MaxHandlers == 3

Handlers == IF fnOut = Null THEN << >> ELSE fnOut.handlers

Delivered(d) == IF fnOut = Null THEN Null ELSE fnOut.delivered[d]

\* decryptedCache.set(msgId, entry)
CacheSet(cache, entry) ==
  IF CacheHas(cache, entry.id)
  THEN [i \in 1..Len(cache) |-> IF cache[i].id = entry.id THEN entry ELSE cache[i]]
  ELSE Append(cache, entry)

\* The loop of the callback from document h.pos on, up to its next await:
\* cached documents are pushed; the first uncached one suspends the handler;
\* past the last document the handler is done.
RECURSIVE Advance(_, _)
Advance(h, cache) ==
  IF h.pos > Len(h.docs) THEN [h EXCEPT !.pc = "done"]
  ELSE IF CacheHas(cache, h.docs[h.pos])
  THEN Advance([h EXCEPT !.messages = Append(@, CacheGet(cache, h.docs[h.pos])),
                         !.pos = @ + 1], cache)
  ELSE [h EXCEPT !.pc = "await", !.decrypted = Append(@, h.docs[h.pos])]

\* messages.value = decryptedMessages, when the handler has reached it.
Display(d, h) ==
  IF h.pc = "done" THEN [view[d] EXCEPT !.messages = h.messages] ELSE view[d]

\* The listener passes a new snapshot of the view's query to the callback,
\* which runs to its first await.
DeliverSnapshot(d) ==
  LET docs == QueryFrom(view[d].conversationId, 1)
      h == Advance([device |-> d, docs |-> docs, pos |-> 1, messages |-> << >>,
                    decrypted |-> << >>, pc |-> "start"],
                   view[d].decryptedCache)
  IN  /\ view[d].subscribed
      /\ Len(Handlers) < MaxHandlers
      /\ Delivered(d) # [docs |-> docs]
      /\ view' = [view EXCEPT ![d] = Display(d, h)]
      /\ fnOut' = [op |-> "onSnapshot", handlers |-> Append(Handlers, h),
                   delivered |-> [e \in Devices |->
                                    IF e = d THEN [docs |-> docs] ELSE Delivered(e)]]
      /\ UNCHANGED <<currentUser, issuedUids, encryptionVars, conversationKeys,
                     publicKeyCache, seenNonces, identityStore, publicKeys,
                     messageStore, rng, observationVars, fnIn>>

\* The decryption a handler awaits settles: the entry (decrypted or marked
\* failed) is cached and pushed, and the loop goes on to its next await.
ResumeHandler(k) ==
  LET h == Handlers[k]
      d == h.device
      msgId == h.docs[h.pos]
      data == messageStore[msgId]
      content == decryptMessageSafe(DeviceState(d), data, TRUE)
      entry == DecryptedEntry(msgId, data, content.result)
      cache == CacheSet(view[d].decryptedCache, entry)
      next == Advance([h EXCEPT !.messages = Append(@, entry), !.pos = @ + 1], cache)
  IN  /\ h.pc = "await"
      /\ ApplyDeviceState(d, content.ds)
      /\ view' = [view EXCEPT ![d] = [Display(d, next) EXCEPT !.decryptedCache = cache]]
      /\ fnOut' = [fnOut EXCEPT !.handlers[k] = next]
      /\ UNCHANGED <<currentUser, issuedUids, encryptionVars, identityStore,
                     publicKeys, messageStore, rng, observationVars, fnIn>>

NextSnapshots ==
  \/ \E d \in Devices : SendMessage(d, Str("hi"))
  \/ \E d \in Devices : DeliverSnapshot(d)
  \/ \E k \in 1..Len(Handlers) : ResumeHandler(k)

\* Snapshot handlers interleaved at their awaits, in the established
\* conversation of InitCodec.
SpecSnapshots == InitCodec /\ [][NextSnapshots]_vars

\* How often the handlers of device d have called decryptMessageSafe for
\* document msgId.
RECURSIVE CountIn(_, _)
CountIn(seq, x) ==
  IF seq = << >> THEN 0
  ELSE (IF Head(seq) = x THEN 1 ELSE 0) + CountIn(Tail(seq), x)

RECURSIVE DecryptionsFrom(_, _, _)
DecryptionsFrom(k, d, msgId) ==
  IF k > Len(Handlers) THEN 0
  ELSE (IF Handlers[k].device = d THEN CountIn(Handlers[k].decrypted, msgId) ELSE 0)
       + DecryptionsFrom(k + 1, d, msgId)

\* C31 (as claimed): within one chat view every message document is decrypted
\* at most once across all snapshot handlers, also when a snapshot arrives
\* while an earlier handler still awaits a decryption.
C31_DecryptedAtMostOnce ==
  \A d \in Devices : \A msgId \in Docs : DecryptionsFrom(1, d, msgId) <= 1

\* ------------------------------------------------------------ image upload

\* useMultipleImageUpload.  The state of one uploader instance is kept in
\* fnOut: imagePreviews (previews), uploadState, abortControllers, isCanceled,
\* the uploadToS3 calls in flight (tasks, each with whether its signal was
\* aborted), the uploadImages call in flight (run: the chunks not yet started,
\* the uploads of the current chunk not yet settled, results and errors), and
\* the previews the last cancelUpload found uploading (cancelled).
MaxImages == 4
concurrency == 3

IdleUploadState ==
  [isUploading |-> FALSE, totalProgress |-> 0, completedCount |-> 0,
   totalCount |-> 0, error |-> Null]

NewUploader ==
  [op |-> "upload", previews |-> << >>, uploadState |-> IdleUploadState,
   abortControllers |-> {}, isCanceled |-> FALSE, tasks |-> {}, run |-> Null,
   cancelled |-> {}, idCounter |-> 0]

Uploader == IF fnOut = Null THEN NewUploader ELSE fnOut

UploaderFrame ==
  UNCHANGED <<currentUser, issuedUids, encryptionVars, conversationKeys,
              publicKeyCache, seenNonces, identityStore, publicKeys, messageStore,
              view, rng, observationVars, fnIn>>

RECURSIVE SumProgress(_)
SumProgress(previews) ==
  IF previews = << >> THEN 0 ELSE Head(previews).progress + SumProgress(Tail(previews))

\* updateTotalProgress: Math.round(sum / total)
updateTotalProgress(u) ==
  LET total == Len(u.previews)
  IN  IF total = 0 THEN [u EXCEPT !.uploadState.totalProgress = 0]
      ELSE [u EXCEPT !.uploadState.totalProgress =
              (2 * SumProgress(u.previews) + total) \div (2 * total)]

\* The preview with the given id set to status, progress and error.
SetPreview(u, id, status, progress, error) ==
  [u EXCEPT !.previews =
     [k \in 1..Len(u.previews) |->
        IF u.previews[k].id = id
        THEN [u.previews[k] EXCEPT !.status = status, !.progress = progress,
                                   !.error = error]
        ELSE u.previews[k]]]

PreviewOf(u, id) == u.previews[CHOOSE k \in 1..Len(u.previews) : u.previews[k].id = id]

\* addImages with one valid file.
AddImage ==
  LET u == Uploader
      id == u.idCounter + 1
  IN  /\ id <= MaxImages
      /\ u.run = Null
      /\ fnOut' = [u EXCEPT !.uploadState.error = Null,
                            !.idCounter = id,
                            !.previews = Append(@, [id |-> id, status |-> "pending",
                                                    progress |-> 0, error |-> Null])]
      /\ UploaderFrame

\* pendingImages cut into chunks of `concurrency`.
RECURSIVE ChunksOf(_)
ChunksOf(ids) ==
  IF Len(ids) <= concurrency THEN (IF ids = << >> THEN << >> ELSE <<ids>>)
  ELSE <<SubSeq(ids, 1, concurrency)>> \o ChunksOf(SubSeq(ids, concurrency + 1, Len(ids)))

RECURSIVE PendingIds(_)
PendingIds(previews) ==
  IF previews = << >> THEN << >>
  ELSE (IF Head(previews).status = "pending" THEN <<Head(previews).id>> ELSE << >>)
       \o PendingIds(Tail(previews))

\* uploadSingleImage up to `await uploadToS3`, for each preview of a chunk.
RECURSIVE StartChunk(_, _)
StartChunk(u, chunk) ==
  IF chunk = << >> THEN u
  ELSE StartChunk(
         [SetPreview(u, Head(chunk), "uploading", 0, PreviewOf(u, Head(chunk)).error)
            EXCEPT !.abortControllers = @ \cup {Head(chunk)},
                   !.tasks = @ \cup {[id |-> Head(chunk), aborted |-> FALSE]},
                   !.run.waiting = @ \cup {Head(chunk)}],
         Tail(chunk))

\* uploadImages after its loop: isUploading, the error summary, and the
\* completed previews dropped.
FinishRun(u) ==
  [u EXCEPT !.uploadState.isUploading = FALSE,
            !.uploadState.error = IF u.run.errors # << >>
                                  THEN [failed |-> u.run.errors] ELSE @,
            !.previews = SelectSeq(@, LAMBDA p : p.status # "completed"),
            !.run = Null]

\* The for loop of uploadImages at the top of an iteration.
NextChunk(u) ==
  IF u.run.chunks = << >> \/ u.isCanceled THEN FinishRun(u)
  ELSE StartChunk([u EXCEPT !.run.chunks = Tail(@)], Head(u.run.chunks))

\* uploadImages, up to its first `await Promise.all`.
UploadImages ==
  LET u == Uploader
      pendingImages == PendingIds(u.previews)
  IN  /\ u.run = Null /\ u.tasks = {}
      /\ pendingImages # << >>
      /\ fnOut' = NextChunk(
           [u EXCEPT !.uploadState = [isUploading |-> TRUE, totalProgress |-> 0,
                                      completedCount |-> 0,
                                      totalCount |-> Len(pendingImages),
                                      error |-> Null],
                     !.isCanceled = FALSE,
                     !.cancelled = {},
                     !.run = [chunks |-> ChunksOf(pendingImages), waiting |-> {},
                              results |-> << >>, errors |-> << >>]])
      /\ UploaderFrame

\* The progress callback of an upload in flight: if (!isCanceled) the
\* preview's progress and the total are updated (here to 50%).
UploadProgress(id) ==
  LET u == Uploader
  IN  /\ [id |-> id, aborted |-> FALSE] \in u.tasks
      /\ PreviewOf(u, id).progress # 50
      /\ ~u.isCanceled
      /\ fnOut' = updateTotalProgress(
                    SetPreview(u, id, PreviewOf(u, id).status, 50,
                               PreviewOf(u, id).error))
      /\ UploaderFrame

\* cancelUpload
cancelUpload(u) ==
  [u EXCEPT !.isCanceled = TRUE,
            !.tasks = {[id |-> t.id, aborted |-> t.aborted \/ t.id \in u.abortControllers]
                         : t \in u.tasks},
            !.abortControllers = {},
            !.cancelled = {u.previews[k].id : k \in {j \in 1..Len(u.previews) :
                                                      u.previews[j].status = "uploading"}},
            !.previews = [k \in 1..Len(u.previews) |->
                            IF u.previews[k].status = "uploading"
                            THEN [u.previews[k] EXCEPT !.status = "pending", !.progress = 0]
                            ELSE u.previews[k]],
            !.uploadState = [IdleUploadState EXCEPT !.error = Str("Upload canceled")]]

CancelUpload ==
  /\ Uploader.run # Null
  /\ ~Uploader.isCanceled
  /\ fnOut' = cancelUpload(Uploader)
  /\ UploaderFrame

\* uploadSingleImage after `await uploadToS3` settled with the outcome
\* ("resolve", "networkError" or "canceled"), then the chunk.map callback of
\* uploadImages; thrown tells whether uploadSingleImage threw.
uploadSingleImageSettled(u, id, outcome) ==
  IF outcome = "resolve"
  THEN IF u.isCanceled
       THEN SetPreview(u, id, "error", PreviewOf(u, id).progress, Str("Canceled"))
       ELSE [updateTotalProgress(
               [SetPreview(u, id, "completed", 100, PreviewOf(u, id).error)
                  EXCEPT !.uploadState.completedCount = @ + 1])
               EXCEPT !.abortControllers = @ \ {id},
                      !.run.results = Append(@, id)]
  ELSE LET v == [u EXCEPT !.abortControllers = @ \ {id}]
       IN  IF u.isCanceled \/ outcome = "canceled"
           THEN SetPreview(v, id, "error", PreviewOf(v, id).progress, Str("Canceled"))
           ELSE [SetPreview(v, id, "error", PreviewOf(v, id).progress, Str("Upload failed"))
                   EXCEPT !.run.errors = Append(@, id)]

\* An upload in flight settles; when it was the last of its chunk,
\* Promise.all resolves and the loop of uploadImages goes on.
SettleUpload(id, outcome) ==
  LET u == Uploader
      task == CHOOSE t \in u.tasks : t.id = id
      settled == [uploadSingleImageSettled(u, id, outcome)
                    EXCEPT !.tasks = @ \ {task}, !.run.waiting = @ \ {id}]
  IN  /\ \E t \in u.tasks : t.id = id
      /\ outcome = "canceled" => task.aborted
      /\ fnOut' = IF settled.run.waiting = {} THEN NextChunk(settled) ELSE settled
      /\ UploaderFrame

NextUpload ==
  \/ AddImage
  \/ UploadImages
  \/ \E id \in 1..MaxImages : UploadProgress(id)
  \/ CancelUpload
  \/ \E id \in 1..MaxImages :
       \E outcome \in {"resolve", "networkError", "canceled"} : SettleUpload(id, outcome)

SpecUpload == InitCodec /\ [][NextUpload]_vars

\* C32 (as claimed): once the uploads a cancelUpload interrupted have settled,
\* every preview that was uploading has status 'pending' and progress 0.
C32_CancelledBackToPending ==
  LET u == Uploader
  IN  (u.cancelled # {} /\ u.run = Null /\ u.tasks = {}) =>
        \A id \in u.cancelled :
          /\ PreviewOf(u, id).status = "pending"
          /\ PreviewOf(u, id).progress = 0

\* ------------------------------------------------ distinct conversations

\* The user id does not contain the separator '_'.
NoSeparator(uid) == \A k \in 1..Len(uid) : uid[k] # 95

\* The HKDF info string deriveConversationKey binds a key to.
InfoOf(conversationId) == stringToBytes(<<"conversation:", conversationId>>)

StartInitialization(d) ==
  /\ currentUser[d] # NoUser
  /\ ~isInitialized[d] /\ ~isInitializing[d]
  /\ isInitializing' = [isInitializing EXCEPT ![d] = TRUE]
  /\ initError' = [initError EXCEPT ![d] = Null]
  /\ UNCHANGED <<currentUser, issuedUids, isInitialized, myPrivateKey, myPublicKey,
                 myPublicKeyBase64, conversationKeys, publicKeyCache, seenNonces,
                 identityStore, publicKeys, messageStore, view, rng,
                 observationVars, fnVars>>

\* The call in flight runs its try block to the end.
FinishInitialization(d) ==
  /\ currentUser[d] # NoUser
  /\ isInitializing[d]
  /\ ApplyInitialization(d, initializeEncryptionRun(d))
  /\ UNCHANGED <<currentUser, issuedUids, conversationKeys, publicKeyCache,
                 seenNonces, messageStore, view, observationVars, fnVars>>

\* A further call of initializeEncryption, which the guard
\* `if (isInitialized.value || isInitializing.value) return` ends at once.  The
\* state it returns in is kept in fnOut.
CallInitializeEncryption(d) ==
  /\ currentUser[d] # NoUser
  /\ isInitialized[d] \/ isInitializing[d]
  /\ fnOut' = [op |-> "initializeEncryption", device |-> d, thrown |-> Null,
               state |-> initializeEncryption(d)]
  /\ fnOut' # fnOut
  /\ UNCHANGED <<currentUser, issuedUids, encryptionVars, conversationKeys,
                 publicKeyCache, seenNonces, identityStore, publicKeys,
                 messageStore, view, rng, observationVars, fnIn>>

NextInitSteps ==
  \/ \E d \in Devices : SignIn(d)
  \/ \E d \in Devices : StartInitialization(d)
  \/ \E d \in Devices : FinishInitialization(d)
  \/ \E d \in Devices : CallInitializeEncryption(d)
  \/ \E d \in Devices : Reload(d)

SpecInitSteps == Init /\ [][NextInitSteps]_vars

\* C34 (as claimed): whenever a call of initializeEncryption returns without
\* throwing, the identity private key is loaded and isInitialized is true,
\* also for a call made while another call is in flight.
C34_ReturnMeansInitialized ==
  (fnOut # Null /\ fnOut.op = "initializeEncryption" /\ fnOut.thrown = Null) =>
    /\ fnOut.state.isInitialized
    /\ fnOut.state.myPrivateKey # Null

\* --------------------------------------------- identity of the signed-in user

\* C35 (as claimed): the in-memory identity private key is the one the local
\* key store holds for the user signed in, and every cached conversation key
\* was derived from that key for a conversation of that user, also after a
\* sign-out followed by a sign-in as another user.
C35_IdentityBelongsToCurrentUser ==
  \A d \in Devices :
    (currentUser[d] # NoUser /\ myPrivateKey[d] # Null) =>
      LET user == currentUser[d]
      IN  /\ identityStore[d][user] # Null
          /\ importPrivateKey(identityStore[d][user].privateKey).value = myPrivateKey[d]
          /\ \A u \in UserIds :
                conversationKeys[d][u] # Null =>
                  /\ myPrivateKey[d].id \in conversationKeys[d][u].ikm.bits
                  /\ conversationKeys[d][u].info =
                       stringToBytes(<<"conversation:", createConversationId(user, u)>>)

\* C36 (as claimed): the in-memory identity private key is set only when the
\* same key pair is in the local key store and its public half is in the
\* directory, so that no conversation key is derived from a key pair that was
\* not saved and published, also after an initializeEncryption that failed
\* part-way.
C36_KeyInMemoryOnlyWhenPersisted ==
  \A d \in Devices :
    currentUser[d] # NoUser =>
      LET user == currentUser[d]
          persisted ==
            /\ identityStore[d][user] # Null
            /\ importPrivateKey(identityStore[d][user].privateKey).value = myPrivateKey[d]
            /\ publicKeys[user] # Null
            /\ publicKeys[user].publicKey = myPublicKeyBase64[d]
      IN  /\ myPrivateKey[d] # Null => persisted
          /\ \A u \in UserIds \ {user} :
                getConversationKey(DeviceState(d), u).derived > 0 => persisted

\* --------------------------------------------- order of concurrent handlers

\* The ids of the entries a view displays, in order.
DisplayedIds(d) == [i \in 1..Len(view[d].messages) |-> view[d].messages[i].id]

\* Every snapshot handler started for device d has reached
\* `messages.value = decryptedMessages`.
HandlersFinished(d) ==
  \A k \in 1..Len(Handlers) : Handlers[k].device = d => Handlers[k].pc = "done"

\* C37 (as claimed): once all the snapshot handlers of a view have finished,
\* the displayed list is the list of the snapshot delivered last, whatever
\* the interleaving of the handlers' decryptions.
C37_LastSnapshotDisplayed ==
  \A d \in Devices :
    (Delivered(d) # Null /\ HandlersFinished(d)) =>
      DisplayedIds(d) = Delivered(d).docs

\* ------------------------------------------------ transient decryption failures

\* getDoc rejects while the directory cannot be reached (Firestore: code
\* 'unavailable').
Unavailable ==
  [type |-> "FirebaseError", code |-> "unavailable",
   message |-> "Failed to get document because the client is offline."]

\* decryptMessageSafe(data, true) when the directory may be out of reach: the
\* call reaches `await getDoc(doc(db, 'publicKeys', recipientId))` when it is
\* past the guards of getConversationKey and both key caches miss, and the
\* rejection goes up to the caller unchanged.
decryptMessageSafeVia(ds, msg, available) ==
  LET partnerId == IF msg.senderId = ds.currentUser THEN msg.recipientId ELSE msg.senderId
      fetches == /\ ds.currentUser # NoUser
                 /\ ds.myPrivateKey # Null
                 /\ ds.conversationKeys[partnerId] = Null
                 /\ ds.publicKeyCache[partnerId] = Null
  IN  IF fetches /\ ~available
      THEN [result |-> Attempt([ok |-> FALSE, value |-> Null, error |-> Unavailable], FALSE),
            ds |-> ds, evicted |-> FALSE]
      ELSE decryptMessageSafe(ds, msg, TRUE)

\* The decryption a handler awaits settles, with the directory reachable or
\* not when the call reads it: as ResumeHandler.
ResumeHandlerVia(k, available) ==
  LET h == Handlers[k]
      d == h.device
      msgId == h.docs[h.pos]
      data == messageStore[msgId]
      content == decryptMessageSafeVia(DeviceState(d), data, available)
      entry == DecryptedEntry(msgId, data, content.result)
      cache == CacheSet(view[d].decryptedCache, entry)
      next == Advance([h EXCEPT !.messages = Append(@, entry), !.pos = @ + 1], cache)
  IN  /\ h.pc = "await"
      /\ ApplyDeviceState(d, content.ds)
      /\ view' = [view EXCEPT ![d] = [Display(d, next) EXCEPT !.decryptedCache = cache]]
      /\ fnOut' = [fnOut EXCEPT !.handlers[k] = next]
      /\ UNCHANGED <<currentUser, issuedUids, encryptionVars, identityStore,
                     publicKeys, messageStore, rng, observationVars, fnIn>>

NextTransient ==
  \/ \E d \in Devices : SendMessage(d, Str("hi"))
  \/ \E d \in Devices : DeliverSnapshot(d)
  \/ \E k \in 1..Len(Handlers) : \E available \in BOOLEAN : ResumeHandlerVia(k, available)

\* Snapshot handlers interleaved at their awaits, over a directory whose
\* reads fail now and then.
SpecTransient == InitCodec /\ [][NextTransient]_vars

\* C38 (as claimed): once a message id has an entry in a view's
\* decryptedCache, the entry stays as it is while the view lives and every
\* later display of the id shows that entry: a message whose first decryption
\* failed stays marked decryptionFailed.
C38_CachedEntryKept ==
  [][\A d \in Devices : \A msgId \in Docs :
       (/\ view[d].mounted /\ view'[d].mounted
        /\ CacheHas(view[d].decryptedCache, msgId)) =>
         LET entry == CacheGet(view[d].decryptedCache, msgId)
         IN  /\ CacheHas(view'[d].decryptedCache, msgId)
             /\ CacheGet(view'[d].decryptedCache, msgId) = entry
             /\ \A k \in 1..Len(view'[d].messages) :
                  view'[d].messages[k].id = msgId => view'[d].messages[k] = entry]_vars

\* ------------------------------------------------------- failures of sendMessage

\* The Firestore writes of sendMessage that can reject once the message is
\* encrypted: addDoc on the messages collection, then setDoc on the
\* conversation document (lastMessageAt).
SendSteps == {"addDoc", "setDoc"}

\* Nonces the failing sends may use up.
MaxSends == 4

\* useEncryptedChat: sendMessage(text, senderUsername) when the given write
\* rejects: the steps before it have taken effect, the catch block sets
\* error = 'Failed to send message' and rethrows.  handleSend logs the error
\* and keeps the input, so the user can send the text again.  The call and the
\* error it threw are kept in fnOut.
SendMessageFails(d, text, step) ==
  /\ view[d].mounted
  /\ currentUser[d] # NoUser
  /\ view[d].conversationId # NoConversation
  /\ Len(messageStore) < MaxDocs
  /\ rng.nonce <= MaxSends
  /\ LET sent == encryptMessage(DeviceState(d), view[d].recipientId,
                                <<<<"text", text>>>>, rng.nonce, rng.iv)
     IN  /\ sent.result.ok
         /\ ApplyDeviceState(d, sent.ds)
         /\ rng' = [rng EXCEPT !.nonce = @ + 1, !.iv = @ + 1]
         /\ IF step = "setDoc"
            THEN /\ messageStore' = Append(messageStore,
                      messageData(currentUser[d], view[d].recipientId,
                                  Str("Anonymous"), view[d].conversationId,
                                  Len(messageStore) + 1, sent.result.value))
                 /\ origin' = Append(origin,
                      [root |-> Len(messageStore) + 1,
                       content |-> <<<<"text", text>>>>,
                       senderReady |-> Ready(d)])
            ELSE UNCHANGED <<messageStore, origin>>
  /\ view' = [view EXCEPT ![d].error = Str("Failed to send message")]
  /\ fnOut' = [op |-> "sendMessage", device |-> d, text |-> text, step |-> step,
               thrown |-> Unavailable]
  /\ UNCHANGED <<currentUser, issuedUids, encryptionVars, identityStore,
                 publicKeys, validated, fnIn>>

NextSend ==
  \/ \E d \in Devices : SendMessage(d, Str("hi"))
  \/ \E d \in Devices : \E step \in SendSteps : SendMessageFails(d, Str("hi"), step)
  \/ \E d \in Devices : OnSnapshot(d)

\* Sending in an established conversation, with writes that fail now and then.
SpecSend == InitCodec /\ [][NextSend]_vars

\* C39 (as claimed): a sendMessage call that rejects and sets 'Failed to send
\* message' has added no record to the message store, so that sending the
\* text again after a failure creates no duplicate.
C39_FailureMeansNothingWritten ==
  [][\A d \in Devices : \A step \in SendSteps :
       SendMessageFails(d, Str("hi"), step) =>
         /\ view'[d].error = Str("Failed to send message")
         /\ messageStore' = messageStore]_vars

\* ------------------------------------------------------------ voice recorder

\* useVoiceRecording and the VoiceRecorder component around it.  Durations are
\* counted in ticks of the duration timer: the timer stops the recording at
\* MAX_VOICE_DURATION ticks, and the send button is enabled from
\* MIN_SEND_DURATION ticks on.
MAX_VOICE_DURATION == 3
MIN_SEND_DURATION == 1

\* The state of one recorder is kept in fnOut: recordingState.state and
\* .duration, whether recorder and durationInterval are set, the callbacks
\* passed to RecordRTC's stopRecording that have not run yet (stopping, each
\* named after its caller), the upload in flight, and the component's
\* showRecorder.
NewRecorder ==
  [op |-> "voice", state |-> "idle", duration |-> 0, recorder |-> FALSE,
   durationInterval |-> FALSE, stopping |-> {}, upload |-> "none",
   showRecorder |-> FALSE]

Recorder == IF fnOut = Null THEN NewRecorder ELSE fnOut

RecorderFrame ==
  UNCHANGED <<currentUser, issuedUids, encryptionVars, conversationKeys,
              publicKeyCache, seenNonces, identityStore, publicKeys, messageStore,
              view, rng, observationVars, fnIn>>

isProcessing == Recorder.state \in {"processing", "uploading"}

\* useVoiceRecording: cleanup
cleanup(r) == [r EXCEPT !.durationInterval = FALSE, !.recorder = FALSE]

\* useVoiceRecording: stopRecording, with the caller that awaits its promise
\* ("send": handleSend; "timer": the duration timer, which drops the promise).
\* Yields the recorder after the call and whether the promise resolved to
\* null at once.
stopRecording(r, caller) ==
  IF ~r.recorder \/ r.state \notin {"recording", "paused"}
  THEN [r |-> r, resolvedNull |-> TRUE]
  ELSE [r |-> [r EXCEPT !.state = "processing", !.stopping = @ \cup {caller}],
        resolvedNull |-> FALSE]

\* VoiceRecorder: handleMicClick, up to `await getUserMedia` in startRecording
HandleMicClick ==
  /\ ~Recorder.showRecorder
  /\ Recorder.state # "requesting"
  /\ fnOut' = [Recorder EXCEPT !.state = "requesting"]
  /\ RecorderFrame

\* startRecording after getUserMedia settled, and the rest of handleMicClick
GetUserMediaSettles(granted) ==
  /\ Recorder.state = "requesting"
  /\ fnOut' = IF granted
              THEN [Recorder EXCEPT !.state = "recording", !.duration = 0,
                                    !.recorder = TRUE, !.durationInterval = TRUE,
                                    !.showRecorder = TRUE]
              ELSE [cleanup(Recorder) EXCEPT !.state = "idle"]
  /\ RecorderFrame

\* The setInterval callback of startRecording / resumeRecording
Tick ==
  /\ Recorder.durationInterval
  /\ Recorder.duration <= MAX_VOICE_DURATION
  /\ LET ticked == [Recorder EXCEPT !.duration = @ + 1]
     IN  fnOut' = IF ticked.duration >= MAX_VOICE_DURATION
                  THEN stopRecording(ticked, "timer").r
                  ELSE ticked
  /\ RecorderFrame

\* VoiceRecorder: handlePauseResume (pauseRecording / resumeRecording)
HandlePauseResume ==
  /\ Recorder.showRecorder /\ ~isProcessing
  /\ Recorder.recorder /\ Recorder.state \in {"recording", "paused"}
  /\ fnOut' = IF Recorder.state = "recording"
              THEN [Recorder EXCEPT !.state = "paused", !.durationInterval = FALSE]
              ELSE [Recorder EXCEPT !.state = "recording", !.durationInterval = TRUE]
  /\ RecorderFrame

\* VoiceRecorder: handleSend, up to `await stopRecording()`; when that
\* resolves to null at once, to its end.
HandleSend ==
  /\ Recorder.showRecorder /\ ~isProcessing
  /\ Recorder.duration >= MIN_SEND_DURATION
  /\ LET stopped == stopRecording(Recorder, "send")
     IN  fnOut' = IF stopped.resolvedNull
                  THEN [stopped.r EXCEPT !.showRecorder = FALSE]
                  ELSE stopped.r
  /\ RecorderFrame

\* VoiceRecorder: handleCancel (cancelUpload when processing or uploading,
\* cancelRecording otherwise)
HandleCancel ==
  /\ Recorder.showRecorder
  /\ fnOut' =
       IF isProcessing
       THEN [Recorder EXCEPT !.state = "idle", !.showRecorder = FALSE,
                             !.upload = IF @ = "running" THEN "canceled" ELSE @]
       ELSE IF Recorder.recorder
       THEN [Recorder EXCEPT !.state = "idle", !.duration = 0, !.showRecorder = FALSE,
                             !.stopping = @ \cup {"cancel"}]
       ELSE [cleanup(Recorder) EXCEPT !.state = "idle", !.duration = 0,
                                      !.showRecorder = FALSE]
  /\ RecorderFrame

\* RecordRTC runs a callback passed to stopRecording: cleanup, and for the
\* call handleSend awaits, the start of uploadVoiceMessage with the blob.
RecorderStopped(caller) ==
  /\ caller \in Recorder.stopping
  /\ LET r == [cleanup(Recorder) EXCEPT !.stopping = @ \ {caller}]
     IN  fnOut' = IF caller = "send"
                  THEN [r EXCEPT !.state = "uploading", !.upload = "preparing"]
                  ELSE r
  /\ RecorderFrame

\* uploadVoiceMessage: waveform and duration are ready, the upload task starts.
UploadPrepared ==
  /\ Recorder.upload = "preparing"
  /\ fnOut' = [Recorder EXCEPT !.upload = "running"]
  /\ RecorderFrame

\* The upload task ends (completed, failed, or canceled by cancelUpload), and
\* handleSend runs to its end.
UploadSettles(completed) ==
  /\ Recorder.upload \in {"running", "canceled"}
  /\ Recorder.upload = "canceled" => ~completed
  /\ fnOut' = [Recorder EXCEPT !.state = "idle", !.upload = "none",
                               !.duration = IF completed THEN 0 ELSE @,
                               !.showRecorder = FALSE]
  /\ RecorderFrame

NextVoice ==
  \/ HandleMicClick
  \/ \E granted \in BOOLEAN : GetUserMediaSettles(granted)
  \/ Tick
  \/ HandlePauseResume
  \/ HandleSend
  \/ HandleCancel
  \/ \E caller \in {"send", "timer", "cancel"} : RecorderStopped(caller)
  \/ UploadPrepared
  \/ \E completed \in BOOLEAN : UploadSettles(completed)

SpecVoice == Init /\ [][NextVoice]_vars

\* The browser runs timers, media requests, recorder callbacks and uploads to
\* their end; what the user does is up to the user.
SpecVoiceFair ==
  /\ SpecVoice
  /\ WF_vars(Tick)
  /\ WF_vars(\E granted \in BOOLEAN : GetUserMediaSettles(granted))
  /\ WF_vars(\E caller \in {"send", "timer", "cancel"} : RecorderStopped(caller))
  /\ WF_vars(UploadPrepared)
  /\ WF_vars(\E completed \in BOOLEAN : UploadSettles(completed))

\* C40 (as claimed): every entry of the recorder to 'processing', the stop by
\* the duration timer included, is followed by 'uploading' or 'idle' without
\* a cancel by the user.
C40_ProcessingEnds ==
  (Recorder.state = "processing") ~> (Recorder.state \in {"uploading", "idle"})

====
